---- MODULE Spec2Model ----
(***************************************************************************)
(* Marketplace order synchronisation and status reconciliation             *)
(* (app/services.py, app/db.py, app/enums.py, app/main.py).                *)
(*                                                                         *)
(* Time is counted in half seconds, so that "less than one second apart"   *)
(* and "exactly one second apart" are different cases.                     *)
(***************************************************************************)
EXTENDS Integers, Sequences, FiniteSets, TLC

\* ------------------------------------------------------------------------
\* Bounds of the model
\* ------------------------------------------------------------------------
MaxTime == 2        \* status timestamps range over 0..MaxTime half seconds
MaxUpserts == 3     \* calls of _upsert_snapshot in one behaviour of SpecUpsert
MaxAnyStatusCalls == 2  \* calls of _upsert_snapshot in one behaviour of SpecAnyStatus
NumRuns == 2        \* triggers (scheduler tick, manual request) that may overlap
MaxStarts == 2      \* sync runs started in one behaviour
MaxBatch == 1       \* snapshots one feed returns in one run
MaxSaves == 1       \* times the credentials are saved in one behaviour
MaxItems == 3       \* length of a list handed to _collapse_snapshots on its own

Times == 0..MaxTime
Runs == 1..NumRuns

\* one second, in half seconds (the "< 1" of _is_duplicate_event)
OneSecond == 2

None == "none"

\* ------------------------------------------------------------------------
\* enums.py
\* ------------------------------------------------------------------------
WB == "wb"
OZON == "ozon"
Marketplace == {WB, OZON}

NEW_STATUS == "new"
ASSEMBLY == "assembly"
TRANSFERRED_TO_DELIVERY == "transferred_to_delivery"
ACCEPTED_AT_WAREHOUSE == "accepted_at_warehouse"
IN_TRANSIT_TO_BUYER == "in_transit_to_buyer"
ARRIVED_AT_BUYER_PICKUP == "arrived_at_buyer_pickup"
BUYOUT == "buyout"
RETURN_STARTED == "return_started"
REJECTION == "rejection"
DEFECT == "defect"
RETURN_IN_TRANSIT_FROM_BUYER == "return_in_transit_from_buyer"
RETURN_ARRIVED_TO_SELLER_PICKUP == "return_arrived_to_seller_pickup"
SELLER_PICKED_UP == "seller_picked_up"

OrderStatus ==
    { NEW_STATUS, ASSEMBLY, TRANSFERRED_TO_DELIVERY, ACCEPTED_AT_WAREHOUSE,
      IN_TRANSIT_TO_BUYER, ARRIVED_AT_BUYER_PICKUP, BUYOUT, RETURN_STARTED,
      REJECTION, DEFECT, RETURN_IN_TRANSIT_FROM_BUYER,
      RETURN_ARRIVED_TO_SELLER_PICKUP, SELLER_PICKED_UP }

\* ------------------------------------------------------------------------
\* services.py: the WB forward funnel and rollback protection
\* ------------------------------------------------------------------------
WB_FORWARD_FUNNEL ==
    << NEW_STATUS, ASSEMBLY, TRANSFERRED_TO_DELIVERY, ACCEPTED_AT_WAREHOUSE,
       IN_TRANSIT_TO_BUYER, ARRIVED_AT_BUYER_PICKUP, BUYOUT >>

\* status in WB_FORWARD_FUNNEL_INDEX  (the .get() is not None)
InFunnel(status) == \E i \in DOMAIN WB_FORWARD_FUNNEL : WB_FORWARD_FUNNEL[i] = status

\* WB_FORWARD_FUNNEL_INDEX[status], the enumerate() index; only used when InFunnel
WB_FORWARD_FUNNEL_INDEX(status) ==
    (CHOOSE i \in DOMAIN WB_FORWARD_FUNNEL : WB_FORWARD_FUNNEL[i] = status) - 1

\* the local set terminal_statuses of _prevent_wb_status_rollback
terminal_statuses ==
    { REJECTION, RETURN_STARTED, RETURN_IN_TRANSIT_FROM_BUYER,
      RETURN_ARRIVED_TO_SELLER_PICKUP, SELLER_PICKED_UP, DEFECT }

\* variant: the rank comparison is dropped, every incoming status is accepted
prevent_rollback_never_blocks(current_status, incoming_status) == incoming_status

\* variant: a status without a funnel rank keeps the current status
prevent_rollback_keeps_unranked(current_status, incoming_status) ==
    IF incoming_status \in terminal_statuses THEN incoming_status
    ELSE IF ~InFunnel(current_status) \/ ~InFunnel(incoming_status) THEN current_status
    ELSE IF WB_FORWARD_FUNNEL_INDEX(incoming_status) < WB_FORWARD_FUNNEL_INDEX(current_status)
         THEN current_status
    ELSE incoming_status

prevent_wb_status_rollback(current_status, incoming_status) ==
    IF incoming_status \in terminal_statuses THEN incoming_status
    ELSE IF ~InFunnel(current_status) \/ ~InFunnel(incoming_status) THEN incoming_status
    ELSE IF WB_FORWARD_FUNNEL_INDEX(incoming_status) < WB_FORWARD_FUNNEL_INDEX(current_status)
         THEN current_status
    ELSE incoming_status

\* ------------------------------------------------------------------------
\* services.py: ExternalOrderSnapshot, and the Order rows it is reconciled into
\* ------------------------------------------------------------------------
\* An external order number is a string; it is kept as its sequence of
\* characters, because _looks_like_srid inspects the characters.
Letters == {"a", "b", "s"}

\* wb_rid is None (or empty): "snapshot.wb_rid and ..." is false
NoRid == << >>

\* ExternalOrderSnapshot(marketplace, assembly_task_number, status, status_at,
\*                       product_name, sku, quantity, due_ship_at, wb_rid)
ExternalOrderSnapshot(marketplace, number, status, status_at, attrs, wb_rid) ==
    [ marketplace |-> marketplace, assembly_task_number |-> number,
      status |-> status, status_at |-> status_at,
      product_name |-> attrs.product_name, sku |-> attrs.sku,
      quantity |-> attrs.quantity, due_ship_at |-> attrs.due_ship_at,
      wb_rid |-> wb_rid ]

\* OrderEvent(status=..., event_at=...)
OrderEvent(status, event_at) == [status |-> status, event_at |-> event_at]

\* max(snapshot.quantity, 1)
Max(a, b) == IF a >= b THEN a ELSE b

\* the value of "x or y" for an optional string
OrElse(x, y) == IF x # None THEN x ELSE y

\* _is_duplicate_event: an event of the same status less than one second away
\* variant: the window also counts events exactly one second away
is_duplicate_event_inclusive(order, status, event_at) ==
    \E i \in DOMAIN order.events :
        /\ order.events[i].status = status
        /\ order.events[i].event_at - event_at <= OneSecond
        /\ event_at - order.events[i].event_at <= OneSecond

\* variant: no event is ever taken for a duplicate
is_duplicate_event_never(order, status, event_at) == FALSE

is_duplicate_event(order, status, event_at) ==
    \E i \in DOMAIN order.events :
        /\ order.events[i].status = status
        /\ order.events[i].event_at - event_at < OneSecond
        /\ event_at - order.events[i].event_at < OneSecond

\* _looks_like_srid: any(c.isalpha() or c == '.' for c in value)
looks_like_srid(value) ==
    \E i \in DOMAIN value : value[i] \in Letters \/ value[i] = "."

\* The SELECTs of _upsert_snapshot run against the rows of the database: the
\* session is created with autoflush=False and nothing flushes inside a run,
\* so orders added earlier in the same session are not found by them.
\* .order_by(Order.id.desc()) with session.scalar(): the greatest matching id,
\* or 0 when there is none (ids start at 1).
LastId(ids) == IF ids = {} THEN 0 ELSE CHOOSE i \in ids : \A j \in ids : j <= i

SelectByNumber(rows, snapshot) ==
    LastId({ i \in DOMAIN rows :
               /\ rows[i].marketplace = snapshot.marketplace
               /\ rows[i].external_order_id = snapshot.assembly_task_number })

SelectByRid(rows, snapshot) ==
    LastId({ i \in DOMAIN rows :
               /\ rows[i].marketplace = snapshot.marketplace
               /\ rows[i].wb_rid = snapshot.wb_rid })

\* variant: the lookup by correlation token does not test the number
find_order_by_rid_for_any_number(rows, snapshot) ==
    IF SelectByNumber(rows, snapshot) # 0 THEN SelectByNumber(rows, snapshot)
    ELSE IF snapshot.wb_rid # NoRid THEN SelectByRid(rows, snapshot)
    ELSE 0

\* lines 905-933: the order the snapshot is matched with (its id), or 0
FindOrder(rows, snapshot) ==
    IF SelectByNumber(rows, snapshot) # 0 THEN SelectByNumber(rows, snapshot)
    ELSE IF snapshot.wb_rid # NoRid /\ looks_like_srid(snapshot.assembly_task_number)
         THEN SelectByRid(rows, snapshot)
    ELSE 0

\* variant: the new order is stored without its first event
new_order_without_event(snapshot) ==
    [ marketplace |-> snapshot.marketplace,
      external_order_id |-> snapshot.assembly_task_number,
      wb_rid |-> snapshot.wb_rid,
      product_name |-> snapshot.product_name,
      sku |-> snapshot.sku,
      quantity |-> Max(snapshot.quantity, 1),
      due_ship_at |-> snapshot.due_ship_at,
      current_status |-> snapshot.status,
      current_status_at |-> snapshot.status_at,
      updated_at |-> 0,
      events |-> << >> ]

\* lines 939-955: the new Order with its first event
NewOrder(snapshot) ==
    [ marketplace |-> snapshot.marketplace,
      external_order_id |-> snapshot.assembly_task_number,
      wb_rid |-> snapshot.wb_rid,
      product_name |-> snapshot.product_name,
      sku |-> snapshot.sku,
      quantity |-> Max(snapshot.quantity, 1),
      due_ship_at |-> snapshot.due_ship_at,
      current_status |-> snapshot.status,
      current_status_at |-> snapshot.status_at,
      updated_at |-> 0,
      events |-> << OrderEvent(snapshot.status, snapshot.status_at) >> ]

\* variant: the correlation token of the snapshot always replaces the order's
with_rid_always(order, snapshot) == [order EXCEPT !.wb_rid = snapshot.wb_rid]

\* lines 959-960: the correlation token is filled in when the order has none
WithRid(order, snapshot) ==
    IF snapshot.wb_rid # NoRid /\ order.wb_rid = NoRid
    THEN [order EXCEPT !.wb_rid = snapshot.wb_rid]
    ELSE order

\* lines 962-969
NextStatus(order, snapshot) ==
    IF snapshot.marketplace = WB
    THEN prevent_wb_status_rollback(order.current_status, snapshot.status)
    ELSE snapshot.status

RollbackBlocked(order, snapshot) ==
    snapshot.marketplace = WB /\ NextStatus(order, snapshot) # snapshot.status

\* variant: the test "next_status != old_status" is missing
accepted_without_status_test(order, snapshot) == ~RollbackBlocked(order, snapshot)

\* line 976
Accepted(order, snapshot) ==
    ~RollbackBlocked(order, snapshot) /\ NextStatus(order, snapshot) # order.current_status

\* line 983
EventCreated(order, snapshot) ==
    /\ Accepted(order, snapshot)
    /\ ~is_duplicate_event(order, NextStatus(order, snapshot), snapshot.status_at)

\* variant: the new event takes the place of the history
appended_events_replace_history(order, snapshot) ==
    IF EventCreated(order, snapshot)
    THEN << OrderEvent(NextStatus(order, snapshot), snapshot.status_at) >>
    ELSE order.events

\* variant: the event is appended without the test of _is_duplicate_event
appended_events_despite_duplicate(order, snapshot) ==
    Append(order.events, OrderEvent(NextStatus(order, snapshot), snapshot.status_at))

\* lines 983-988: order.events after an accepted update
AppendedEvents(order, snapshot) ==
    IF EventCreated(order, snapshot)
    THEN Append(order.events, OrderEvent(NextStatus(order, snapshot), snapshot.status_at))
    ELSE order.events

\* lines 976-993: the order after an accepted update; updated_at counts the
\* times it was set to now()
UpdatedOrder(order, snapshot) ==
    [ order EXCEPT
        !.product_name = OrElse(snapshot.product_name, order.product_name),
        !.sku = IF snapshot.sku # None THEN snapshot.sku ELSE order.sku,
        !.quantity = Max(snapshot.quantity, 1),
        !.due_ship_at = OrElse(snapshot.due_ship_at, order.due_ship_at),
        !.events = AppendedEvents(order, snapshot),
        !.current_status = NextStatus(order, snapshot),
        !.current_status_at = snapshot.status_at,
        !.updated_at = order.updated_at + 1 ]

\* session.add(order) and the commit: a changed row is written with one
\* UPDATE, and updated_at has onupdate = now() (models.py)
Flushed(order, changed) ==
    IF changed # order
    THEN [changed EXCEPT !.updated_at = order.updated_at + 1]
    ELSE changed

\* lines 959-995 for an order that was found
UpsertExisting(order, snapshot) ==
    IF Accepted(WithRid(order, snapshot), snapshot)
    THEN UpdatedOrder(WithRid(order, snapshot), snapshot)
    ELSE Flushed(order, WithRid(order, snapshot))

\* variant: the call also writes every other order of the session
upsert_snapshot_writes_all(rows, orders, snapshot) ==
    IF FindOrder(rows, snapshot) = 0
    THEN [ orders |-> Append(orders, NewOrder(snapshot)),
           id |-> Len(orders) + 1,
           created |-> TRUE, event_created |-> TRUE ]
    ELSE [ orders |-> [ i \in DOMAIN orders |->
                          IF i = FindOrder(rows, snapshot)
                          THEN UpsertExisting(orders[i], snapshot)
                          ELSE [orders[i] EXCEPT !.updated_at = @ + 1] ],
           id |-> FindOrder(rows, snapshot),
           created |-> FALSE,
           event_created |-> EventCreated(WithRid(orders[FindOrder(rows, snapshot)], snapshot),
                                          snapshot) ]

\* _upsert_snapshot(session, snapshot): rows are the rows of the database,
\* orders the objects of the session (the loaded rows, then the added ones).
\* The result is the session's orders and the returned pair.
upsert_snapshot(rows, orders, snapshot) ==
    IF FindOrder(rows, snapshot) = 0
    THEN [ orders |-> Append(orders, NewOrder(snapshot)),
           id |-> Len(orders) + 1,
           created |-> TRUE, event_created |-> TRUE ]
    ELSE [ orders |-> [orders EXCEPT ![FindOrder(rows, snapshot)] =
                          UpsertExisting(orders[FindOrder(rows, snapshot)], snapshot)],
           id |-> FindOrder(rows, snapshot),
           created |-> FALSE,
           event_created |-> EventCreated(WithRid(orders[FindOrder(rows, snapshot)], snapshot),
                                          snapshot) ]

\* ------------------------------------------------------------------------
\* services.py: the status vocabulary of Ozon. A text is the sequence of its
\* characters; a value of a JSON field is null, a string or an integer.
\* ------------------------------------------------------------------------
JNull == [kind |-> "null"]
JStr(text) == [kind |-> "str", text |-> text]
JInt(n) == [kind |-> "int", value |-> n]

\* str(n) for 0 <= n <= 9
IntText(n) == << << "0", "1", "2", "3", "4", "5", "6", "7", "8", "9" >>[n + 1] >>

\* str(value) for a value that is not None
Str(value) == IF value.kind = "str" THEN value.text ELSE IntText(value.value)

\* the upper-case letter of each letter of the vocabulary
Upper ==
    [ c \in { "a", "b", "c", "d", "e", "g", "i", "k", "l", "n", "o", "p", "r", "s", "t", "u", "v", "w", "x", "y" } |->
        CASE c = "a" -> "A"
          [] c = "b" -> "B"
          [] c = "c" -> "C"
          [] c = "d" -> "D"
          [] c = "e" -> "E"
          [] c = "g" -> "G"
          [] c = "i" -> "I"
          [] c = "k" -> "K"
          [] c = "l" -> "L"
          [] c = "n" -> "N"
          [] c = "o" -> "O"
          [] c = "p" -> "P"
          [] c = "r" -> "R"
          [] c = "s" -> "S"
          [] c = "t" -> "T"
          [] c = "u" -> "U"
          [] c = "v" -> "V"
          [] c = "w" -> "W"
          [] c = "x" -> "X"
          [] c = "y" -> "Y" ]

\* str.lower()
lower(text) ==
    [ i \in DOMAIN text |->
        IF \E c \in DOMAIN Upper : Upper[c] = text[i]
        THEN CHOOSE c \in DOMAIN Upper : Upper[c] = text[i]
        ELSE text[i] ]

\* str.upper()
upper(text) == [ i \in DOMAIN text |-> IF text[i] \in DOMAIN Upper THEN Upper[text[i]] ELSE text[i] ]

RECURSIVE strip(_)
\* str.strip(); the only whitespace character of the inputs is the space
strip(text) ==
    IF text = << >> THEN text
    ELSE IF Head(text) = " " THEN strip(Tail(text))
    ELSE IF text[Len(text)] = " " THEN strip(SubSeq(text, 1, Len(text) - 1))
    ELSE text

\* sub in text
Contains(text, sub) ==
    \E i \in 1..(Len(text) - Len(sub) + 1) : SubSeq(text, i, i + Len(sub) - 1) = sub

\* _normalize_status_text
normalize_status_text(raw_status) ==
    IF raw_status = JNull THEN << >> ELSE lower(strip(Str(raw_status)))

Text ==
    [ awaiting_registration |-> << "a", "w", "a", "i", "t", "i", "n", "g", "_", "r", "e", "g", "i", "s", "t", "r", "a", "t", "i", "o", "n" >>,
      acceptance_in_progress |-> << "a", "c", "c", "e", "p", "t", "a", "n", "c", "e", "_", "i", "n", "_", "p", "r", "o", "g", "r", "e", "s", "s" >>,
      awaiting_approve |-> << "a", "w", "a", "i", "t", "i", "n", "g", "_", "a", "p", "p", "r", "o", "v", "e" >>,
      awaiting_packaging |-> << "a", "w", "a", "i", "t", "i", "n", "g", "_", "p", "a", "c", "k", "a", "g", "i", "n", "g" >>,
      awaiting_deliver |-> << "a", "w", "a", "i", "t", "i", "n", "g", "_", "d", "e", "l", "i", "v", "e", "r" >>,
      driver_pickup |-> << "d", "r", "i", "v", "e", "r", "_", "p", "i", "c", "k", "u", "p" >>,
      sent_by_seller |-> << "s", "e", "n", "t", "_", "b", "y", "_", "s", "e", "l", "l", "e", "r" >>,
      not_accepted |-> << "n", "o", "t", "_", "a", "c", "c", "e", "p", "t", "e", "d" >>,
      cancelled |-> << "c", "a", "n", "c", "e", "l", "l", "e", "d" >>,
      delivering |-> << "d", "e", "l", "i", "v", "e", "r", "i", "n", "g" >>,
      delivered |-> << "d", "e", "l", "i", "v", "e", "r", "e", "d" >>,
      received |-> << "r", "e", "c", "e", "i", "v", "e", "d" >>,
      returned |-> << "r", "e", "t", "u", "r", "n", "e", "d" >>,
      returning |-> << "r", "e", "t", "u", "r", "n", "i", "n", "g" >>,
      returned_to_seller |-> << "r", "e", "t", "u", "r", "n", "e", "d", "_", "t", "o", "_", "s", "e", "l", "l", "e", "r" >>,
      seller_pickup |-> << "s", "e", "l", "l", "e", "r", "_", "p", "i", "c", "k", "u", "p" >>,
      loss |-> << "l", "o", "s", "s" >>,
      cancel |-> << "c", "a", "n", "c", "e", "l" >>,
      return |-> << "r", "e", "t", "u", "r", "n" >>,
      to_seller |-> << "t", "o", "_", "s", "e", "l", "l", "e", "r" >>,
      deliver |-> << "d", "e", "l", "i", "v", "e", "r" >>,
      transit |-> << "t", "r", "a", "n", "s", "i", "t" >> ]

\* OZON_STATUS_MAP: the pairs of a key and its status
OZON_STATUS_MAP ==
    { << Text.awaiting_registration, NEW_STATUS >>,
      << Text.acceptance_in_progress, NEW_STATUS >>,
      << Text.awaiting_approve, NEW_STATUS >>,
      << Text.awaiting_packaging, ASSEMBLY >>,
      << Text.awaiting_deliver, TRANSFERRED_TO_DELIVERY >>,
      << Text.driver_pickup, TRANSFERRED_TO_DELIVERY >>,
      << Text.sent_by_seller, TRANSFERRED_TO_DELIVERY >>,
      << Text.not_accepted, REJECTION >>,
      << Text.cancelled, REJECTION >>,
      << Text.delivering, IN_TRANSIT_TO_BUYER >>,
      << Text.delivered, ARRIVED_AT_BUYER_PICKUP >>,
      << Text.received, BUYOUT >>,
      << Text.returned, RETURN_STARTED >>,
      << Text.returning, RETURN_IN_TRANSIT_FROM_BUYER >>,
      << Text.returned_to_seller, RETURN_ARRIVED_TO_SELLER_PICKUP >>,
      << Text.seller_pickup, SELLER_PICKED_UP >>,
      << Text.loss, DEFECT >> }

\* variant: the heuristics are tried before the table
map_ozon_status_heuristics_first(raw_status) ==
    LET normalized == normalize_status_text(raw_status)
    IN  IF Contains(normalized, Text.cancel) \/ Contains(normalized, Text.not_accepted)
        THEN REJECTION
        ELSE IF Contains(normalized, Text.return) /\ Contains(normalized, Text.to_seller)
        THEN RETURN_ARRIVED_TO_SELLER_PICKUP
        ELSE IF Contains(normalized, Text.return) THEN RETURN_STARTED
        ELSE IF Contains(normalized, Text.deliver) \/ Contains(normalized, Text.transit)
        THEN IN_TRANSIT_TO_BUYER
        ELSE IF \E e \in OZON_STATUS_MAP : e[1] = normalized
        THEN (CHOOSE e \in OZON_STATUS_MAP : e[1] = normalized)[2]
        ELSE NEW_STATUS

\* _map_ozon_status
map_ozon_status(raw_status) ==
    LET normalized == normalize_status_text(raw_status)
    IN  IF \E e \in OZON_STATUS_MAP : e[1] = normalized
        THEN (CHOOSE e \in OZON_STATUS_MAP : e[1] = normalized)[2]
        ELSE IF Contains(normalized, Text.cancel) \/ Contains(normalized, Text.not_accepted)
        THEN REJECTION
        ELSE IF Contains(normalized, Text.return) /\ Contains(normalized, Text.to_seller)
        THEN RETURN_ARRIVED_TO_SELLER_PICKUP
        ELSE IF Contains(normalized, Text.return) THEN RETURN_STARTED
        ELSE IF Contains(normalized, Text.deliver) \/ Contains(normalized, Text.transit)
        THEN IN_TRANSIT_TO_BUYER
        ELSE NEW_STATUS

\* ------------------------------------------------------------------------
\* services.py: normalizing the raw records of a page
\* ------------------------------------------------------------------------
\* a number of the payload too large for a float, such as 1e999: json.loads
\* gives float('inf')
JInf == [kind |-> "float", float |-> "inf"]

\* a string of the payload that datetime.fromisoformat parses, as its time
JDate(t) == [kind |-> "date", value |-> t]

\* bool(value)
Truthy(value) ==
    CASE value.kind = "null" -> FALSE
      [] value.kind = "str"  -> value.text # << >>
      [] value.kind = "int"  -> value.value # 0
      [] OTHER               -> TRUE

\* x or y

\* str(x or "").strip()
StrippedText(x) == IF Truthy(x) THEN strip(Str(x)) ELSE << >>

Digits == << "0", "1", "2", "3", "4", "5", "6", "7", "8", "9" >>

\* the text is a decimal literal that int() accepts
IsDigits(text) ==
    text # << >> /\ \A i \in DOMAIN text : \E d \in DOMAIN Digits : Digits[d] = text[i]

RECURSIVE ParseDigits(_)
ParseDigits(text) ==
    IF text = << >> THEN 0
    ELSE 10 * ParseDigits(SubSeq(text, 1, Len(text) - 1))
         + (CHOOSE d \in DOMAIN Digits : Digits[d] = text[Len(text)]) - 1

\* int(value) raises OverflowError for an infinite float, which the
\* "except (TypeError, ValueError)" of _safe_int does not catch
SafeIntRaises(value) == value.kind = "float"

\* _safe_int(value, default) when it returns: None gives TypeError, a text
\* that is no literal ValueError
safe_int(value, default) ==
    LET parsed == IF value.kind = "int" THEN value.value
                  ELSE IF value.kind = "str" /\ IsDigits(strip(value.text))
                       THEN ParseDigits(strip(value.text))
                  ELSE 0
    IN  IF parsed > 0 THEN parsed ELSE default

\* _parse_datetime(value, fallback): "fallback or datetime.now()" for a
\* missing or unparseable value; fallback is << >> for None, or << time >>
parse_datetime(value, fallback, now) ==
    IF value.kind = "date" THEN value.value
    ELSE IF fallback # << >> THEN fallback[1] ELSE now

\* _has_wb_supply_id
has_wb_supply_id(raw_supply_id) ==
    CASE raw_supply_id.kind = "null" -> FALSE
      [] raw_supply_id.kind = "str"  -> strip(raw_supply_id.text) # << >>
      [] raw_supply_id.kind = "int"  -> raw_supply_id.value > 0
      [] OTHER                       -> TRUE

\* _map_wb_status
map_wb_status(raw_supply_id, supply_done) ==
    IF ~has_wb_supply_id(raw_supply_id) THEN NEW_STATUS
    ELSE IF supply_done THEN TRANSFERRED_TO_DELIVERY
    ELSE ASSEMBLY

\* lines 566-568: task_number
WbTaskNumber(item) ==
    IF StrippedText(item.id) # << >> THEN StrippedText(item.id)
    ELSE StrippedText((IF Truthy(item.rid) THEN item.rid ELSE item.srid))

\* the call raises: line 604 is reached and int() raises OverflowError
NormalizeWbRaises(item) == WbTaskNumber(item) # << >> /\ SafeIntRaises(item.quantity)

\* _normalize_wb_order(item, supply_done) when it returns: no snapshot
\* (None) or one; the record has no deadline and no name, so due_ship_at
\* falls back to status_at and product_name to the default
normalize_wb_order(item, supply_done, now) ==
    IF WbTaskNumber(item) = << >> THEN << >>
    ELSE << ExternalOrderSnapshot(
               WB, WbTaskNumber(item),
               map_wb_status(item.supplyId, supply_done /\ has_wb_supply_id(item.supplyId)),
               parse_datetime(item.updatedAt, << >>, now),
               [ product_name |-> << "Zakaz WB", WbTaskNumber(item) >>,
                 sku |-> None,
                 quantity |-> safe_int(item.quantity, 1),
                 due_ship_at |-> parse_datetime(JNull, << parse_datetime(item.updatedAt, << >>, now) >>, now) ],
               StrippedText((IF Truthy(item.rid) THEN item.rid ELSE item.srid))) >>

RECURSIVE WbSnapshotsOf(_, _, _)
\* lines 717-734: the loop over the records of the orders
WbSnapshotsOf(items, supply_done, now) ==
    IF items = << >> THEN << >>
    ELSE normalize_wb_order(Head(items), supply_done, now)
         \o WbSnapshotsOf(Tail(items), supply_done, now)

\* lines 717-734, with the exception of a record leaving the adapter
normalize_wb_records(items, supply_done, now) ==
    IF \E i \in DOMAIN items : NormalizeWbRaises(items[i])
    THEN [ raised |-> TRUE, snapshots |-> << >> ]
    ELSE [ raised |-> FALSE, snapshots |-> WbSnapshotsOf(items, supply_done, now) ]

\* line 612: task_number
OzonTaskNumber(item) == StrippedText((IF Truthy(item.posting_number) THEN item.posting_number ELSE item.order_number))

\* line 619: products
OzonProducts(item) == IF item.products.kind = "list" THEN item.products.items ELSE << >>

RECURSIVE OzonQuantity(_)
\* line 624: sum(_safe_int(p.get("quantity"), default=1) for p in products)
OzonQuantity(products) ==
    IF products = << >> THEN 0
    ELSE safe_int(Head(products).quantity, 1) + OzonQuantity(Tail(products))

\* the call raises: line 624 is reached and int() raises OverflowError
NormalizeOzonRaises(item) ==
    /\ OzonTaskNumber(item) # << >>
    /\ \E i \in DOMAIN OzonProducts(item) : SafeIntRaises(OzonProducts(item)[i].quantity)

\* _normalize_ozon_order(item) when it returns: no snapshot (None) or one;
\* the products have no name and no offer_id, the record no shipment_date
normalize_ozon_order(item, now) ==
    IF OzonTaskNumber(item) = << >> THEN << >>
    ELSE << ExternalOrderSnapshot(
               OZON, OzonTaskNumber(item),
               map_ozon_status(item.status),
               parse_datetime(item.in_process_at, << >>, now),
               [ product_name |-> << "Otpravlenie Ozon", OzonTaskNumber(item) >>,
                 sku |-> None,
                 quantity |-> IF OzonProducts(item) = << >> THEN 1
                              ELSE Max(OzonQuantity(OzonProducts(item)), 1),
                 due_ship_at |-> parse_datetime(JNull, << parse_datetime(item.in_process_at, << >>, now) >>, now) ],
               NoRid) >>

RECURSIVE OzonSnapshotsOf(_, _)
\* lines 868-871: the loop over the postings of a page
OzonSnapshotsOf(items, now) ==
    IF items = << >> THEN << >>
    ELSE normalize_ozon_order(Head(items), now) \o OzonSnapshotsOf(Tail(items), now)

\* lines 868-871, with the exception of a record leaving the adapter
normalize_ozon_records(items, now) ==
    IF \E i \in DOMAIN items : NormalizeOzonRaises(items[i])
    THEN [ raised |-> TRUE, snapshots |-> << >> ]
    ELSE [ raised |-> FALSE, snapshots |-> OzonSnapshotsOf(items, now) ]

\* ------------------------------------------------------------------------
\* services.py: merging the two WB feeds, collapsing a batch
\* ------------------------------------------------------------------------
\* rid_to_task[rid]: in the dict comprehension the last active snapshot that
\* carries the rid sets the value
RidToTask(active, rid) ==
    active[CHOOSE i \in DOMAIN active :
              /\ active[i].wb_rid = rid
              /\ \A j \in DOMAIN active : active[j].wb_rid = rid => j <= i].assembly_task_number

\* variant: no statistics snapshot is given the number of an active one
rekeyed_never(active, stat) == stat

\* lines 811-817 for one statistics snapshot
Rekeyed(active, stat) ==
    IF stat.wb_rid # NoRid /\ \E i \in DOMAIN active : active[i].wb_rid = stat.wb_rid
    THEN [stat EXCEPT !.assembly_task_number = RidToTask(active, stat.wb_rid)]
    ELSE stat

\* _merge_wb_snapshots(active, statistics)
merge_wb_snapshots(active, statistics) ==
    active \o [i \in DOMAIN statistics |-> Rekeyed(active, statistics[i])]

\* key = (item.marketplace, item.assembly_task_number)
Key(item) == << item.marketplace, item.assembly_task_number >>

\* one iteration of the loop of _collapse_snapshots; collapsed is the dict, as
\* the sequence of its values in insertion order of their keys
\* variant: the snapshot seen first for a key is never replaced
collapse_step_keeps_first(items, item) ==
    IF \E i \in DOMAIN items : Key(items[i]) = Key(item)
    THEN items
    ELSE Append(items, item)

\* variant: the snapshot seen last for a key always replaces the kept one
collapse_step_keeps_last(items, item) ==
    IF \E i \in DOMAIN items : Key(items[i]) = Key(item)
    THEN [ i \in DOMAIN items |-> IF Key(items[i]) = Key(item) THEN item ELSE items[i] ]
    ELSE Append(items, item)

CollapseStep(collapsed, item) ==
    IF \E i \in DOMAIN collapsed : Key(collapsed[i]) = Key(item)
    THEN [ i \in DOMAIN collapsed |->
             IF Key(collapsed[i]) = Key(item) /\ item.status_at >= collapsed[i].status_at
             THEN item ELSE collapsed[i] ]
    ELSE Append(collapsed, item)

RECURSIVE CollapseFrom(_, _)
CollapseFrom(collapsed, items) ==
    IF items = << >> THEN collapsed
    ELSE CollapseFrom(CollapseStep(collapsed, Head(items)), Tail(items))

\* variant: the batch is handed on as it is, not collapsed
collapse_snapshots_keeps_all(items) == items

\* _collapse_snapshots(items)
collapse_snapshots(items) == CollapseFrom(<< >>, items)

\* ------------------------------------------------------------------------
\* State
\* ------------------------------------------------------------------------
VARIABLES
    db,        \* the orders table with its events: a sequence, the id is the index
    settings,  \* the settings row: which credentials are non-empty
    saves,     \* number of times the settings were saved so far
    locked,    \* SYNC_LOCK.locked()
    run,       \* per trigger: position in sync_orders_from_marketplaces and its locals
    report,    \* what the last invocation that ended gave its caller
    started,   \* number of invocations of sync_orders_from_marketplaces so far
    last,      \* the last call of _upsert_snapshot: argument, order before, result
    calls,     \* number of direct calls of _upsert_snapshot so far
    batch,     \* the list handed to _collapse_snapshots called on its own
    collapsed, \* that call of _collapse_snapshots: the list after it, its result
    fetch,     \* the two adapters of one run: position, locals, what they returned
    applied    \* a pure function of services.py called on its own: arguments, result

vars == << db, settings, saves, locked, run, report, started, last, calls,
           batch, collapsed, fetch, applied >>

NoCollapse == [done |-> FALSE]

NoFetch == [pc |-> "none"]

NoApplied == [fn |-> "none", done |-> FALSE]

NoCall == [made |-> FALSE]

\* the record of one call of _upsert_snapshot; before is the matched order as
\* it was, in a sequence (empty when no order matched); repeat tells that the
\* call before it had the same snapshot, changed that the call changed some
\* order or added one
CallRecord(orders, snapshot, result) ==
    [ made |-> TRUE, snapshot |-> snapshot, id |-> result.id,
      repeat |-> last.made /\ last.snapshot = snapshot,
      changed |-> result.orders # orders,
      before |-> IF result.created THEN << >> ELSE << orders[result.id] >>,
      after |-> result.orders[result.id],
      created |-> result.created, event_created |-> result.event_created ]

\* Settings(id=1, wb_token="", ozon_client_id="", ozon_api_key="")
EmptySettings == [wb_token |-> FALSE, ozon_keys |-> FALSE]

\* the locals of sync_orders_from_marketplaces before it is entered
IdleRun ==
    [ pc |-> "idle", cfg |-> EmptySettings,
      wb_snapshots |-> << >>, ozon_snapshots |-> << >>,
      wb_raised |-> FALSE, ozon_raised |-> FALSE ]

NoReport == [kind |-> "none"]

\* variant: the refusal is reported with the message of a completed run
already_running_report_as_completed(r) ==
    [ kind |-> "report", to |-> r, wb_received |-> 0, ozon_received |-> 0,
      processed_orders |-> 0, created_orders |-> 0, updated_orders |-> 0,
      created_events |-> 0, message |-> "completed",
      wb_raised |-> FALSE, ozon_raised |-> FALSE ]

\* lines 1001-1005
AlreadyRunningReport(r) ==
    [ kind |-> "report", to |-> r, wb_received |-> 0, ozon_received |-> 0,
      processed_orders |-> 0, created_orders |-> 0, updated_orders |-> 0,
      created_events |-> 0, message |-> "already running",
      wb_raised |-> FALSE, ozon_raised |-> FALSE ]

\* the exception left sync_orders_from_marketplaces
Raised(r) == [kind |-> "raised", to |-> r, at |-> run[r].pc]

\* ------------------------------------------------------------------------
\* What the marketplaces answer
\* ------------------------------------------------------------------------
AttrsA == [product_name |-> "p1", sku |-> None, quantity |-> 1, due_ship_at |-> None]
AttrsB == [product_name |-> "p2", sku |-> "k2", quantity |-> 2, due_ship_at |-> "d2"]

WbNumber == << "7" >>
WbSrid == << "s", "." >>
OzonNumber == << "8" >>

\* the status timestamps the feeds report: more than one second apart
FeedTimes == {0, OneSecond + 1}

\* _fetch_wb_active_orders: _map_wb_status gives new, assembly or
\* transferred_to_delivery
WbActiveSnapshots ==
    { ExternalOrderSnapshot(WB, WbNumber, st, t, AttrsB, rid) :
        st \in {ASSEMBLY, TRANSFERRED_TO_DELIVERY}, t \in FeedTimes, rid \in {WbSrid} }

\* _fetch_wb_statistics_snapshots (here the cancelled orders), keyed by the srid
WbStatisticsSnapshots ==
    { ExternalOrderSnapshot(WB, WbSrid, st, t, AttrsA, WbSrid) :
        st \in {REJECTION}, t \in FeedTimes }

\* _fetch_ozon_orders
OzonSnapshots ==
    { ExternalOrderSnapshot(OZON, OzonNumber, st, t, a, NoRid) :
        st \in {NEW_STATUS, REJECTION}, t \in FeedTimes, a \in {AttrsA} }

\* the lists of at most n elements of S
RECURSIVE ListsUpTo(_, _)
ListsUpTo(S, n) ==
    IF n = 0 THEN { << >> }
    ELSE ListsUpTo(S, n - 1) \cup { Append(l, x) : l \in ListsUpTo(S, n - 1), x \in S }

\* what one call of a feed can return
WbActiveLists == ListsUpTo(WbActiveSnapshots, MaxBatch)
WbStatisticsLists == ListsUpTo(WbStatisticsSnapshots, MaxBatch)
OzonLists == ListsUpTo(OzonSnapshots, MaxBatch)

\* the statuses the WB feeds produce: _map_wb_status and
\* _map_wb_statistics_status
WbFeedStatuses == {NEW_STATUS, ASSEMBLY, TRANSFERRED_TO_DELIVERY, BUYOUT, REJECTION}

\* some of the statuses _map_ozon_status produces
OzonFeedStatuses == {NEW_STATUS, ASSEMBLY, REJECTION}

\* the snapshots handed to _upsert_snapshot in SpecUpsert: what the adapters
\* can produce for one order of each marketplace
UpsertInputs ==
    { ExternalOrderSnapshot(WB, WbNumber, st, t, AttrsA, NoRid) :
        st \in WbFeedStatuses, t \in Times }
    \cup
    { ExternalOrderSnapshot(OZON, OzonNumber, st, t, AttrsA, NoRid) :
        st \in OzonFeedStatuses, t \in Times }

\* the snapshots handed to _upsert_snapshot in SpecAnyStatus: every OrderStatus
AnyStatusInputs ==
    { ExternalOrderSnapshot(m, IF m = WB THEN WbNumber ELSE OzonNumber, st, t, AttrsA, NoRid) :
        m \in Marketplace, st \in OrderStatus, t \in Times }

InitStore ==
    /\ db = << >>
    /\ settings = EmptySettings
    /\ saves = 0
    /\ locked = FALSE
    /\ run = [r \in Runs |-> IdleRun]
    /\ report = NoReport
    /\ started = 0
    /\ last = NoCall
    /\ calls = 0

Init ==
    /\ InitStore
    /\ batch = << >>
    /\ collapsed = NoCollapse
    /\ fetch = NoFetch
    /\ applied = NoApplied

\* ------------------------------------------------------------------------
\* services.py: save_settings (PUT /api/settings)
\* ------------------------------------------------------------------------
save_settings(wb_token, ozon_keys) ==
    /\ saves < MaxSaves
    /\ saves' = saves + 1
    /\ settings' = [wb_token |-> wb_token, ozon_keys |-> ozon_keys]
    /\ UNCHANGED << db, locked, run, report, started, last, calls, batch, collapsed, fetch, applied >>

\* ------------------------------------------------------------------------
\* services.py: sync_orders_from_marketplaces, one action per stretch of
\* code between two awaits
\* ------------------------------------------------------------------------
\* variant: the lock is acquired and released by hand, and an exception skips
\* the release
raise_keeps_lock(r) ==
    /\ run' = [run EXCEPT ![r] = IdleRun]
    /\ report' = Raised(r)
    /\ locked' = locked

\* the exception leaves the "async with SYNC_LOCK" block: the lock is released
\* and the session of session_scope is rolled back
RaiseFrom(r) ==
    /\ run' = [run EXCEPT ![r] = IdleRun]
    /\ report' = Raised(r)
    /\ locked' = FALSE

\* variant: the run is entered without looking at the lock or taking it
trigger_without_lock(r) ==
    /\ run[r].pc = "idle"
    /\ started < MaxStarts
    /\ started' = started + 1
    /\ run' = [run EXCEPT ![r] = [IdleRun EXCEPT !.pc = "settings"]]
    /\ UNCHANGED << db, settings, saves, locked, report, last, calls, batch, collapsed, fetch, applied >>

\* lines 1000-1007: the caller (scheduler job or POST /api/sync/run) enters;
\* locked() and the acquisition are one step of the event loop
Trigger(r) ==
    /\ run[r].pc = "idle"
    /\ started < MaxStarts
    /\ started' = started + 1
    /\ IF locked
       THEN /\ report' = AlreadyRunningReport(r)
            /\ UNCHANGED << locked, run >>
       ELSE /\ locked' = TRUE
            /\ run' = [run EXCEPT ![r] = [IdleRun EXCEPT !.pc = "settings"]]
            /\ UNCHANGED report
    /\ UNCHANGED << db, settings, saves, last, calls, batch, collapsed, fetch, applied >>

\* lines 1008-1012: the credentials are read in a session of their own
ReadSettings(r) ==
    /\ run[r].pc = "settings"
    /\ run' = [run EXCEPT ![r] = [@ EXCEPT !.pc = "fetch_wb", !.cfg = settings]]
    /\ UNCHANGED << db, settings, saves, locked, report, started, last, calls, batch, collapsed, fetch, applied >>

\* lines 1008-1012 when the storage fails
ReadSettingsFails(r) ==
    /\ run[r].pc = "settings"
    /\ RaiseFrom(r)
    /\ UNCHANGED << db, settings, saves, started, last, calls, batch, collapsed, fetch, applied >>

\* variant: the token is read from the settings row again before the fetch
fetch_wb_reads_settings_again(r, active, statistics) ==
    /\ run[r].pc = "fetch_wb"
    /\ settings.wb_token
    /\ run' = [run EXCEPT ![r] = [@ EXCEPT !.pc = "pause",
                  !.wb_snapshots = merge_wb_snapshots(active, statistics)]]
    /\ UNCHANGED << db, settings, saves, locked, report, started, last, calls, batch, collapsed, fetch, applied >>

\* lines 1017-1019: _fetch_all_wb_orders returns the merged feeds
FetchWb(r, active, statistics) ==
    /\ run[r].pc = "fetch_wb"
    /\ run[r].cfg.wb_token
    /\ run' = [run EXCEPT ![r] = [@ EXCEPT !.pc = "pause",
                  !.wb_snapshots = merge_wb_snapshots(active, statistics)]]
    /\ UNCHANGED << db, settings, saves, locked, report, started, last, calls, batch, collapsed, fetch, applied >>

\* variant: the WB fetch is not wrapped in try/except, its exception leaves
\* the run
fetch_wb_fails_propagates(r) ==
    /\ run[r].pc = "fetch_wb"
    /\ run[r].cfg.wb_token
    /\ RaiseFrom(r)
    /\ UNCHANGED << db, settings, saves, started, last, calls, batch, collapsed, fetch, applied >>

\* lines 1021-1022: _fetch_all_wb_orders raises, wb_snapshots stays empty
FetchWbFails(r) ==
    /\ run[r].pc = "fetch_wb"
    /\ run[r].cfg.wb_token
    /\ run' = [run EXCEPT ![r] = [@ EXCEPT !.pc = "fetch_ozon", !.wb_raised = TRUE]]
    /\ UNCHANGED << db, settings, saves, locked, report, started, last, calls, batch, collapsed, fetch, applied >>

\* line 1018: no WB token
SkipWb(r) ==
    /\ run[r].pc = "fetch_wb"
    /\ ~run[r].cfg.wb_token
    /\ run' = [run EXCEPT ![r] = [@ EXCEPT !.pc = "fetch_ozon"]]
    /\ UNCHANGED << db, settings, saves, locked, report, started, last, calls, batch, collapsed, fetch, applied >>

\* line 1020: await asyncio.sleep(REQUEST_PAUSE_SECONDS)
Pause(r) ==
    /\ run[r].pc = "pause"
    /\ run' = [run EXCEPT ![r] = [@ EXCEPT !.pc = "fetch_ozon"]]
    /\ UNCHANGED << db, settings, saves, locked, report, started, last, calls, batch, collapsed, fetch, applied >>

\* variant: the event of a created order is not counted
counted_without_first_events(acc, result) ==
    [ orders |-> result.orders,
      created_orders |-> acc.created_orders + (IF result.created THEN 1 ELSE 0),
      updated_orders |-> acc.updated_orders + (IF result.created THEN 0 ELSE 1),
      created_events |-> acc.created_events
                           + (IF result.event_created /\ ~result.created THEN 1 ELSE 0) ]

\* variant: an order the call left as it was is not counted as updated
counted_updates_only_when_changed(acc, result) ==
    [ orders |-> result.orders,
      created_orders |-> acc.created_orders + (IF result.created THEN 1 ELSE 0),
      updated_orders |-> acc.updated_orders
                           + (IF ~result.created /\ result.orders # acc.orders THEN 1 ELSE 0),
      created_events |-> acc.created_events + (IF result.event_created THEN 1 ELSE 0) ]

\* lines 1036-1041: the counters after one call of _upsert_snapshot
Counted(acc, result) ==
    [ orders |-> result.orders,
      created_orders |-> acc.created_orders + (IF result.created THEN 1 ELSE 0),
      updated_orders |-> acc.updated_orders + (IF result.created THEN 0 ELSE 1),
      created_events |-> acc.created_events + (IF result.event_created THEN 1 ELSE 0) ]

\* lines 1035-1041: the loop over the collapsed batch; rows is what the
\* session's queries see (autoflush is off), acc.orders what it will commit.
\* The result of each call is bound once as a value.
RECURSIVE UpsertAll(_, _, _)
UpsertAll(rows, acc, snapshots) ==
    IF snapshots = << >> THEN acc
    ELSE CHOOSE done \in
            { UpsertAll(rows, Counted(acc, result), Tail(snapshots)) :
                result \in {upsert_snapshot(rows, acc.orders, Head(snapshots))} } : TRUE

Reconciled(rows, snapshots) ==
    UpsertAll(rows, [orders |-> rows, created_orders |-> 0, updated_orders |-> 0,
                     created_events |-> 0], snapshots)

\* lines 1043-1051; wb_raised and ozon_raised stand for the two
\* logger.exception lines of the run
CompletedReport(r, locals, done) ==
    [ kind |-> "report", to |-> r,
      wb_received |-> Len(locals.wb_snapshots),
      ozon_received |-> Len(locals.ozon_snapshots),
      processed_orders |-> Len(collapse_snapshots(locals.wb_snapshots \o locals.ozon_snapshots)),
      created_orders |-> done.created_orders,
      updated_orders |-> done.updated_orders,
      created_events |-> done.created_events,
      message |-> "completed",
      wb_raised |-> locals.wb_raised, ozon_raised |-> locals.ozon_raised ]

\* lines 1024-1026: _fetch_ozon_orders returns
FetchOzon(r, postings) ==
    /\ run[r].pc = "fetch_ozon"
    /\ run[r].cfg.ozon_keys
    /\ run' = [run EXCEPT ![r] = [@ EXCEPT !.pc = "reconcile", !.ozon_snapshots = postings]]
    /\ UNCHANGED << db, settings, saves, locked, report, started, last, calls, batch, collapsed, fetch, applied >>

\* lines 1027-1028: _fetch_ozon_orders raises, ozon_snapshots stays empty
FetchOzonFails(r) ==
    /\ run[r].pc = "fetch_ozon"
    /\ run[r].cfg.ozon_keys
    /\ run' = [run EXCEPT ![r] = [@ EXCEPT !.pc = "reconcile", !.ozon_raised = TRUE]]
    /\ UNCHANGED << db, settings, saves, locked, report, started, last, calls, batch, collapsed, fetch, applied >>

\* line 1025: no Ozon credentials
SkipOzon(r) ==
    /\ run[r].pc = "fetch_ozon"
    /\ ~run[r].cfg.ozon_keys
    /\ run' = [run EXCEPT ![r] = [@ EXCEPT !.pc = "reconcile"]]
    /\ UNCHANGED << db, settings, saves, locked, report, started, last, calls, batch, collapsed, fetch, applied >>

\* lines 1030-1051: the batch is collapsed, upserted in one session (db.py
\* session_scope) and committed, the lock is released and the report returned
Reconcile(r) ==
    /\ run[r].pc = "reconcile"
    /\ db' = Reconciled(db, collapse_snapshots(run[r].wb_snapshots \o run[r].ozon_snapshots)).orders
    /\ report' = CompletedReport(r, run[r],
                    Reconciled(db, collapse_snapshots(run[r].wb_snapshots \o run[r].ozon_snapshots)))
    /\ run' = [run EXCEPT ![r] = IdleRun]
    /\ locked' = FALSE
    /\ UNCHANGED << settings, saves, started, last, calls, batch, collapsed, fetch, applied >>

\* variant: every upsert is committed on its own, and the failure comes after
\* the first one
storage_fails_after_partial_write(r) ==
    /\ run[r].pc = "reconcile"
    /\ collapse_snapshots(run[r].wb_snapshots \o run[r].ozon_snapshots) # << >>
    /\ db' = upsert_snapshot(db, db,
                 Head(collapse_snapshots(run[r].wb_snapshots \o run[r].ozon_snapshots))).orders
    /\ RaiseFrom(r)
    /\ UNCHANGED << settings, saves, started, last, calls, batch, collapsed, fetch, applied >>

\* db.py session_scope, lines 1033-1041: a query of an upsert or the commit
\* fails; the session is rolled back and the exception is raised again, and
\* nothing in sync_orders_from_marketplaces catches it
StorageFails(r) ==
    /\ run[r].pc = "reconcile"
    /\ RaiseFrom(r)
    /\ UNCHANGED << db, settings, saves, started, last, calls, batch, collapsed, fetch, applied >>

Next ==
    \/ \E w \in BOOLEAN, o \in BOOLEAN : save_settings(w, o)
    \/ \E r \in Runs : Trigger(r)
    \/ \E r \in Runs : ReadSettings(r)
    \/ \E r \in Runs : ReadSettingsFails(r)
    \/ \E r \in Runs : \E active \in WbActiveLists : \E statistics \in WbStatisticsLists :
          FetchWb(r, active, statistics)
    \/ \E r \in Runs : FetchWbFails(r)
    \/ \E r \in Runs : SkipWb(r)
    \/ \E r \in Runs : Pause(r)
    \/ \E r \in Runs : \E postings \in OzonLists : FetchOzon(r, postings)
    \/ \E r \in Runs : FetchOzonFails(r)
    \/ \E r \in Runs : SkipOzon(r)
    \/ \E r \in Runs : Reconcile(r)
    \/ \E r \in Runs : StorageFails(r)

Spec == Init /\ [][Next]_vars

\* ------------------------------------------------------------------------
\* _upsert_snapshot called on its own
\* ------------------------------------------------------------------------
\* with session_scope() as session: _upsert_snapshot(session, snapshot)
\* The session starts from the rows of the database and is committed.
UpsertCall(snapshot) ==
    /\ calls' = calls + 1
    /\ db' = upsert_snapshot(db, db, snapshot).orders
    /\ last' = CallRecord(db, snapshot, upsert_snapshot(db, db, snapshot))
    /\ UNCHANGED << settings, saves, locked, run, report, started, batch, collapsed, fetch, applied >>

NextUpsert == calls < MaxUpserts /\ \E snapshot \in UpsertInputs : UpsertCall(snapshot)

SpecUpsert == Init /\ [][NextUpsert]_vars

NextAnyStatus ==
    calls < MaxAnyStatusCalls /\ \E snapshot \in AnyStatusInputs : UpsertCall(snapshot)

SpecAnyStatus == Init /\ [][NextAnyStatus]_vars

\* the snapshots handed to _upsert_snapshot in SpecFallback: one WB order
\* under its numeric id, under its srid and under a number with a dash, with
\* and without the correlation token
FallbackInputs ==
    { ExternalOrderSnapshot(WB, number, st, t, AttrsA, rid) :
        number \in {WbNumber, WbSrid, << "9", "-" >>}, st \in {ASSEMBLY, REJECTION},
        t \in FeedTimes, rid \in {NoRid, WbSrid} }

NextFallback == calls < MaxUpserts /\ \E snapshot \in FallbackInputs : UpsertCall(snapshot)

SpecFallback == Init /\ [][NextFallback]_vars

\* the snapshots handed to _upsert_snapshot in SpecUpsertRid: with and
\* without a correlation token, with two sets of attributes
UpsertRidInputs ==
    { ExternalOrderSnapshot(WB, WbNumber, st, t, a, rid) :
        st \in {ASSEMBLY, TRANSFERRED_TO_DELIVERY}, t \in FeedTimes,
        a \in {AttrsA, AttrsB}, rid \in {NoRid, WbSrid} }
    \cup
    { ExternalOrderSnapshot(OZON, OzonNumber, st, t, a, NoRid) :
        st \in {NEW_STATUS, ASSEMBLY}, t \in FeedTimes, a \in {AttrsA, AttrsB} }

NextUpsertRid == calls < MaxUpserts /\ \E snapshot \in UpsertRidInputs : UpsertCall(snapshot)

SpecUpsertRid == Init /\ [][NextUpsertRid]_vars

\* ------------------------------------------------------------------------
\* _collapse_snapshots called on its own
\* ------------------------------------------------------------------------
\* the snapshots of the lists: three keys that differ in the marketplace or
\* in the number, every timestamp, and two statuses for the first key
CollapseInputs ==
    { ExternalOrderSnapshot(WB, WbNumber, st, t, AttrsA, NoRid) :
        st \in {NEW_STATUS, ASSEMBLY}, t \in Times }
    \cup
    { ExternalOrderSnapshot(k[1], k[2], NEW_STATUS, t, AttrsA, NoRid) :
        k \in { << WB, WbSrid >>, << OZON, WbNumber >> }, t \in Times }

InitCollapse ==
    /\ InitStore
    /\ batch \in ListsUpTo(CollapseInputs, MaxItems)
    /\ collapsed = NoCollapse
    /\ fetch = NoFetch
    /\ applied = NoApplied

\* result = _collapse_snapshots(batch): items is only read, the result is a
\* new list
Collapse ==
    /\ ~collapsed.done
    /\ collapsed' = [ done |-> TRUE, items |-> batch,
                      result |-> collapse_snapshots(batch) ]
    /\ batch' = batch
    /\ UNCHANGED << db, settings, saves, locked, run, report, started, last, calls, fetch, applied >>

NextCollapse == Collapse

SpecCollapse == InitCollapse /\ [][NextCollapse]_vars

\* ------------------------------------------------------------------------
\* The adapters: lines 1017-1028 of one run, request by request
\* ------------------------------------------------------------------------
\* lines 33-34
MAX_WB_PAGES == 20
MAX_OZON_PAGES == 30

\* the longest run of 429 answers to one request that is told from a longer one
MaxStreak == 3

\* how one request ends: the client raises (a timeout, a transport error), or
\* a response arrives with its status code
HttpOutcomes == {"timeout", "429", "500", "200"}

\* the value of "next" in a payload of the WB orders (0: none) and the number
\* of records of one payload
WbCursors == 0..2
PageSizes == 0..1

\* lines 1014-1015 and the locals of the adapters at their first request, with
\* both marketplaces configured; orders: the length of all_wb_orders, then of
\* the snapshots of _fetch_ozon_orders; call, streak: the request at hand and
\* the number of 429 in a row it was answered with (MaxStreak: or more);
\* requests: the requests the loop over the pages has issued; failed: the
\* requests the client raised for; ozon_served: the postings Ozon delivered
StartFetch ==
    [ pc |-> "wb_new", i |-> 0, next_cursor |-> 0, offset |-> 0, orders |-> 0,
      supply_done |-> FALSE, call |-> "none", streak |-> 0, page |-> "none",
      requests |-> 0, wb_failed |-> {}, wb_raised |-> FALSE, wb_snapshots |-> 0,
      ozon_failed |-> {}, ozon_raised |-> FALSE, ozon_snapshots |-> 0,
      ozon_served |-> 0 ]

InitFetch ==
    /\ InitStore
    /\ batch = << >>
    /\ collapsed = NoCollapse
    /\ fetch = StartFetch
    /\ applied = NoApplied

\* the request `call` of the adapter ended as `outcome`
Answered(f, call, outcome) ==
    [ f EXCEPT !.call = call,
               !.streak = IF outcome # "429" THEN 0
                          ELSE IF f.call # call THEN 1
                          ELSE IF @ < MaxStreak THEN @ + 1 ELSE MaxStreak,
               !.wb_failed = IF outcome = "timeout" /\ call # "postings_page"
                             THEN @ \cup {call} ELSE @,
               !.ozon_failed = IF outcome = "timeout" /\ call = "postings_page"
                               THEN @ \cup {call} ELSE @ ]

\* variant: the snapshots fetched before the exception are kept
wb_aborts_keeps_partial(f) ==
    [ f EXCEPT !.pc = "ozon_pages", !.wb_raised = TRUE, !.wb_snapshots = f.orders + 1,
               !.i = 0, !.next_cursor = 0, !.orders = 0, !.requests = 0,
               !.page = "none", !.supply_done = FALSE ]

\* lines 831, 1021-1022: the exception leaves _fetch_wb_active_orders and
\* _fetch_all_wb_orders, wb_snapshots stays []
WbAborts(f) ==
    [ f EXCEPT !.pc = "ozon_pages", !.wb_raised = TRUE, !.wb_snapshots = 0,
               !.i = 0, !.next_cursor = 0, !.orders = 0, !.requests = 0,
               !.page = "none", !.supply_done = FALSE ]

\* lines 670-671
WbNewOrdersAnswer(f, n) ==
    [ f EXCEPT !.pc = "wb_pages", !.orders = @ + n ]

\* lines 657-664: the request of the new orders
WbNewOrders(outcome, n) ==
    /\ fetch.pc = "wb_new"
    /\ LET f == Answered(fetch, "new_orders", outcome)
       IN  fetch' = CASE outcome = "timeout" -> WbAborts(f)
                      [] outcome = "429"     -> [f EXCEPT !.pc = "wb_new_retry"]
                      [] outcome = "500"     -> WbAborts(f)
                      [] outcome = "200"     -> WbNewOrdersAnswer(f, n)
    /\ UNCHANGED << db, settings, saves, locked, run, report, started, last, calls, batch, collapsed, applied >>

\* lines 665-671: the second request of the new orders; raise_for_status
\* raises for a 429 as for any other error status
WbNewOrdersRetry(outcome, n) ==
    /\ fetch.pc = "wb_new_retry"
    /\ LET f == Answered(fetch, "new_orders", outcome)
       IN  fetch' = IF outcome = "200" THEN WbNewOrdersAnswer(f, n) ELSE WbAborts(f)
    /\ UNCHANGED << db, settings, saves, locked, run, report, started, last, calls, batch, collapsed, applied >>

\* line 674 after a break or after the last value of range(MAX_WB_PAGES)
WbLoopEnds(f) == [ f EXCEPT !.pc = "wb_supplies" ]

\* variant: a 429 repeats the request without taking a value of the range
wb_loop_next_in_place(f) == f

\* line 674: the next value of range(MAX_WB_PAGES), if any
WbLoopNext(f) ==
    IF f.i + 1 < MAX_WB_PAGES THEN [f EXCEPT !.i = @ + 1]
    ELSE WbLoopEnds([f EXCEPT !.i = @ + 1])

\* lines 686-694: a page that was answered with 200
WbPageAnswer(f, n, new_next) ==
    LET g == [f EXCEPT !.orders = @ + n]
    IN  IF n = 0 THEN WbLoopEnds([f EXCEPT !.page = "empty"])
        ELSE IF new_next = 0 THEN WbLoopEnds([g EXCEPT !.page = "end"])
        ELSE IF new_next = f.next_cursor
             THEN WbLoopEnds([g EXCEPT !.page = "same_cursor"])
        ELSE WbLoopNext([g EXCEPT !.page = "more", !.next_cursor = new_next])

\* lines 674-685: one pass of the loop over the pages of the orders
WbOrdersPage(outcome, n, new_next) ==
    /\ fetch.pc = "wb_pages"
    /\ LET f == [ Answered(fetch, "orders_page", outcome) EXCEPT !.requests = @ + 1 ]
       IN  fetch' = CASE outcome = "timeout" -> WbAborts(f)
                      [] outcome = "429"     -> WbLoopNext([f EXCEPT !.page = "429"])
                      [] outcome = "500"     -> WbAborts(f)
                      [] outcome = "200"     -> WbPageAnswer(f, n, new_next)
    /\ UNCHANGED << db, settings, saves, locked, run, report, started, last, calls, batch, collapsed, applied >>

\* what the lookup of the supply of the orders ends as: the client raises, an
\* error status, a 200 whose body is no JSON object, or a 200 with "done";
\* every order of the feed is in the one supply
SupplyOutcomes == {"timeout", "500", "unparsable", "done", "not_done"}

\* variant: a lookup that failed counts as a supply that is done
wb_supplies_answer_failure_is_done(f, outcome) ==
    [ f EXCEPT !.pc = "wb_statistics", !.supply_done = (outcome # "not_done") ]

\* lines 534-550, 713-734: an exception or an error status of a lookup makes
\* the supply not done; every order is normalized
WbSuppliesAnswer(f, outcome) ==
    [ f EXCEPT !.pc = "wb_statistics", !.supply_done = (outcome = "done") ]

\* lines 696-741, 508-557: no lookup without orders
WbSupplies(outcome) ==
    /\ fetch.pc = "wb_supplies"
    /\ IF fetch.orders = 0
       THEN /\ outcome = "not_done"
            /\ fetch' = [ fetch EXCEPT !.pc = "wb_statistics" ]
       ELSE fetch' = WbSuppliesAnswer(Answered(fetch, "supply", outcome), outcome)
    /\ UNCHANGED << db, settings, saves, locked, run, report, started, last, calls, batch, collapsed, applied >>

\* lines 832-833, 1019-1020: the merged list has the snapshots of both feeds
WbReturns(f, statistics) ==
    [ f EXCEPT !.pc = "ozon_pages", !.wb_snapshots = f.orders + statistics,
               !.i = 0, !.next_cursor = 0, !.orders = 0, !.requests = 0,
               !.page = "none", !.supply_done = FALSE ]

\* lines 751-755: the request of the statistics; lines 792-793 catch every
\* exception and the feed is empty
WbStatistics(outcome, n) ==
    /\ fetch.pc = "wb_statistics"
    /\ LET f == Answered(fetch, "statistics", outcome)
       IN  fetch' = CASE outcome = "timeout" -> WbReturns(f, 0)
                      [] outcome = "429"     -> [f EXCEPT !.pc = "wb_statistics_retry"]
                      [] outcome = "500"     -> WbReturns(f, 0)
                      [] outcome = "200"     -> WbReturns(f, n)
    /\ UNCHANGED << db, settings, saves, locked, run, report, started, last, calls, batch, collapsed, applied >>

\* lines 756-794: the second request of the statistics
WbStatisticsRetry(outcome, n) ==
    /\ fetch.pc = "wb_statistics_retry"
    /\ LET f == Answered(fetch, "statistics", outcome)
       IN  fetch' = IF outcome = "200" THEN WbReturns(f, n) ELSE WbReturns(f, 0)
    /\ UNCHANGED << db, settings, saves, locked, run, report, started, last, calls, batch, collapsed, applied >>

\* lines 1027-1028: the exception leaves _fetch_ozon_orders, ozon_snapshots
\* stays []
OzonAborts(f) ==
    [ f EXCEPT !.pc = "done", !.ozon_raised = TRUE, !.ozon_snapshots = 0 ]

\* line 876, 1026
OzonReturns(f) == [ f EXCEPT !.pc = "done", !.ozon_snapshots = f.orders ]

\* line 847: the next value of range(MAX_OZON_PAGES), if any
OzonLoopNext(f) ==
    IF f.i + 1 < MAX_OZON_PAGES THEN [f EXCEPT !.i = @ + 1]
    ELSE OzonReturns([f EXCEPT !.i = @ + 1])

\* lines 861-875: a page that was answered with 200; postings: "list" or not
OzonPageAnswer(f, postings, n, has_next) ==
    LET g == [f EXCEPT !.orders = @ + n, !.ozon_served = @ + n]
    IN  IF postings # "list" THEN OzonReturns([f EXCEPT !.page = "malformed"])
        ELSE IF n = 0 THEN OzonReturns([f EXCEPT !.page = "empty"])
        ELSE IF ~has_next THEN OzonReturns([g EXCEPT !.page = "end"])
        ELSE OzonLoopNext([g EXCEPT !.page = "more", !.offset = @ + 50])

\* lines 847-860: one pass of the loop over the pages of the postings
OzonPage(outcome, postings, n, has_next) ==
    /\ fetch.pc = "ozon_pages"
    /\ LET f == [ Answered(fetch, "postings_page", outcome) EXCEPT !.requests = @ + 1 ]
       IN  fetch' = CASE outcome = "timeout" -> OzonAborts(f)
                      [] outcome = "429"     -> OzonLoopNext([f EXCEPT !.page = "429"])
                      [] outcome = "500"     -> OzonAborts(f)
                      [] outcome = "200"     -> OzonPageAnswer(f, postings, n, has_next)
    /\ UNCHANGED << db, settings, saves, locked, run, report, started, last, calls, batch, collapsed, applied >>

NextFetch ==
    \/ \E outcome \in HttpOutcomes : \E n \in PageSizes : WbNewOrders(outcome, n)
    \/ \E outcome \in HttpOutcomes : \E n \in PageSizes : WbNewOrdersRetry(outcome, n)
    \/ \E outcome \in HttpOutcomes : \E n \in PageSizes : \E new_next \in WbCursors :
          WbOrdersPage(outcome, n, new_next)
    \/ \E outcome \in SupplyOutcomes : WbSupplies(outcome)
    \/ \E outcome \in HttpOutcomes : \E n \in PageSizes : WbStatistics(outcome, n)
    \/ \E outcome \in HttpOutcomes : \E n \in PageSizes : WbStatisticsRetry(outcome, n)
    \/ \E outcome \in HttpOutcomes : \E postings \in {"list", "dict"} :
          \E n \in PageSizes : \E has_next \in BOOLEAN :
             OzonPage(outcome, postings, n, has_next)

SpecFetch == InitFetch /\ [][NextFetch]_vars

\* ------------------------------------------------------------------------
\* _merge_wb_snapshots called on its own
\* ------------------------------------------------------------------------
MaxMerge == 2

\* a second assembly task and a second srid

\* active snapshots: two numbers, without a rid or with one of two
MergeActive ==
    { ExternalOrderSnapshot(WB, number, ASSEMBLY, 0, AttrsB, rid) :
        number \in {WbNumber, << "9" >>}, rid \in {NoRid, WbSrid, << "s", "2" >>} }

\* statistics snapshots are keyed by their srid (lines 779-790); a snapshot
\* without a rid stands for any other caller of the function
MergeStatistics ==
    { ExternalOrderSnapshot(WB, srid, REJECTION, 1, AttrsA, srid) : srid \in {WbSrid, << "s", "2" >>} }
    \cup { ExternalOrderSnapshot(WB, WbSrid, BUYOUT, 1, AttrsA, NoRid) }

InitMerge ==
    /\ InitStore
    /\ batch = << >>
    /\ collapsed = NoCollapse
    /\ fetch = NoFetch
    /\ \E active \in ListsUpTo(MergeActive, MaxMerge) :
          \E statistics \in ListsUpTo(MergeStatistics, MaxMerge) :
             applied = [ fn |-> "merge", done |-> FALSE, active |-> active,
                         statistics |-> statistics, result |-> << >> ]

\* result = _merge_wb_snapshots(active, statistics)
Merge ==
    /\ applied.fn = "merge" /\ ~applied.done
    /\ applied' = [ applied EXCEPT !.done = TRUE,
                       !.result = merge_wb_snapshots(applied.active, applied.statistics) ]
    /\ UNCHANGED << db, settings, saves, locked, run, report, started, last, calls,
                    batch, collapsed, fetch >>

NextMerge == Merge

SpecMerge == InitMerge /\ [][NextMerge]_vars

\* ------------------------------------------------------------------------
\* _map_ozon_status called on its own
\* ------------------------------------------------------------------------
MaxFragments == 2

\* the pieces the raw statuses are made of: the keys of the table, the words
\* of the heuristics and a letter that is in neither
StatusFragments ==
    { e[1] : e \in OZON_STATUS_MAP }
    \cup { Text.cancel, Text.return, Text.to_seller, Text.deliver, Text.transit, << "x" >> }

RECURSIVE Concat(_)
Concat(pieces) == IF pieces = << >> THEN << >> ELSE Head(pieces) \o Concat(Tail(pieces))

\* the raw statuses: null, an integer, and the texts of up to n pieces as
\* they are, in upper case, and with blanks around them
RawStatuses(n) ==
    { JNull, JInt(5) }
    \cup { JStr(text) : text \in
             UNION { { t, upper(t), << " " >> \o t \o << " " >>,
                       << " " >> \o upper(t) \o << " ", " " >> } :
                     t \in { Concat(pieces) : pieces \in ListsUpTo(StatusFragments, n) } } }

InitOzonStatus ==
    /\ InitStore
    /\ batch = << >>
    /\ collapsed = NoCollapse
    /\ fetch = NoFetch
    /\ \E raw_status \in RawStatuses(MaxFragments) :
          applied = [ fn |-> "map_ozon_status", done |-> FALSE,
                      raw_status |-> raw_status, result |-> None ]

\* status = _map_ozon_status(raw_status)
MapOzonStatus ==
    /\ applied.fn = "map_ozon_status" /\ ~applied.done
    /\ applied' = [ applied EXCEPT !.done = TRUE,
                                   !.result = map_ozon_status(applied.raw_status) ]
    /\ UNCHANGED << db, settings, saves, locked, run, report, started, last, calls,
                    batch, collapsed, fetch >>

NextOzonStatus == MapOzonStatus

SpecOzonStatus == InitOzonStatus /\ [][NextOzonStatus]_vars

\* ------------------------------------------------------------------------
\* The normalization of the records of a page called on its own
\* ------------------------------------------------------------------------
MaxPage == 2

\* what "quantity" holds in a record: missing, no number, zero, a number as
\* integer or as text, a number too large for a float
RawQuantities == { JNull, JStr(<< "x" >>), JInt(0), JInt(2), JStr(<< "3" >>), JInf }

\* the records of the WB orders: the number in id, in rid, in srid, nowhere,
\* or blank; with and without a supply; with and without a date
WbRawOrders ==
    { [ id |-> n[1], rid |-> n[2], srid |-> n[3], supplyId |-> JStr(<< "S" >>),
        quantity |-> q, updatedAt |-> JDate(1) ] :
        n \in { << JInt(7), JNull, JNull >>, << JNull, JStr(WbSrid), JNull >>,
                << JNull, JNull, JNull >>, << JStr(<< " " >>), JStr(<< >>), JNull >> },
        q \in RawQuantities }
    \cup
    { [ id |-> JInt(7), rid |-> JNull, srid |-> JStr(WbSrid), supplyId |-> supply,
        quantity |-> JInt(2), updatedAt |-> date ] :
        supply \in { JNull, JInt(0) }, date \in { JNull, JStr(<< "x" >>) } }

\* what "products" holds in a posting
RawProducts ==
    { JNull }
    \cup { [ kind |-> "list", items |-> products ] :
             products \in { << >>,
                            << [quantity |-> JStr(<< "x" >>)] >>,
                            << [quantity |-> JInt(2)] >>,
                            << [quantity |-> JInf] >>,
                            << [quantity |-> JInt(0)], [quantity |-> JNull] >>,
                            << [quantity |-> JInt(2)], [quantity |-> JStr(<< "3" >>)] >> } }

\* the postings of Ozon: the number in posting_number, in order_number,
\* nowhere, or blank
OzonRawPostings ==
    { [ posting_number |-> n[1], order_number |-> n[2], status |-> JStr(Text.delivered),
        products |-> products, in_process_at |-> JDate(1) ] :
        n \in { << JStr(OzonNumber), JNull >>, << JNull, JInt(9) >>,
                << JNull, JNull >>, << JStr(<< " " >>), JNull >> },
        products \in RawProducts }
    \cup
    { [ posting_number |-> JStr(OzonNumber), order_number |-> JNull, status |-> JNull,
        products |-> JNull, in_process_at |-> JNull ] }

InitNormalize ==
    /\ InitStore
    /\ batch = << >>
    /\ collapsed = NoCollapse
    /\ fetch = NoFetch
    /\ \/ \E items \in ListsUpTo(WbRawOrders, MaxPage) : \E supply_done \in BOOLEAN :
             applied = [ fn |-> "normalize_wb_records", done |-> FALSE, items |-> items,
                         supply_done |-> supply_done, now |-> MaxTime,
                         result |-> [raised |-> FALSE, snapshots |-> << >>] ]
       \/ \E items \in ListsUpTo(OzonRawPostings, MaxPage) :
             applied = [ fn |-> "normalize_ozon_records", done |-> FALSE, items |-> items,
                         supply_done |-> FALSE, now |-> MaxTime,
                         result |-> [raised |-> FALSE, snapshots |-> << >>] ]

\* lines 717-734 of _fetch_wb_active_orders
NormalizeWbRecords ==
    /\ applied.fn = "normalize_wb_records" /\ ~applied.done
    /\ applied' = [ applied EXCEPT
                      !.done = TRUE,
                      !.result = normalize_wb_records(applied.items, applied.supply_done,
                                                      applied.now) ]
    /\ UNCHANGED << db, settings, saves, locked, run, report, started, last, calls,
                    batch, collapsed, fetch >>

\* lines 866-871 of _fetch_ozon_orders
NormalizeOzonRecords ==
    /\ applied.fn = "normalize_ozon_records" /\ ~applied.done
    /\ applied' = [ applied EXCEPT
                      !.done = TRUE,
                      !.result = normalize_ozon_records(applied.items, applied.now) ]
    /\ UNCHANGED << db, settings, saves, locked, run, report, started, last, calls,
                    batch, collapsed, fetch >>

NextNormalize == NormalizeWbRecords \/ NormalizeOzonRecords

SpecNormalize == InitNormalize /\ [][NextNormalize]_vars

\* ------------------------------------------------------------------------
\* The supply lookup of one WB order, from the request to the stored order
\* ------------------------------------------------------------------------
\* lines 713-734 and 1033-1041 for a feed of one record: the lookup of its
\* supply ends as outcome, _map_wb_status gives the status of the snapshot
\* and the snapshot is upserted
SupplyRun(outcome, supply, t) ==
    /\ calls < MaxUpserts
    /\ LET supply_done == has_wb_supply_id(supply)
                             /\ WbSuppliesAnswer(StartFetch, outcome).supply_done
           snapshot == ExternalOrderSnapshot(WB, WbNumber, map_wb_status(supply, supply_done),
                                             t, AttrsA, NoRid)
       IN  /\ calls' = calls + 1
           /\ db' = upsert_snapshot(db, db, snapshot).orders
           /\ last' = CallRecord(db, snapshot, upsert_snapshot(db, db, snapshot))
           /\ applied' = [ fn |-> "supply_run", done |-> TRUE, outcome |-> outcome,
                           supply |-> supply, call |-> calls + 1 ]
    /\ UNCHANGED << settings, saves, locked, run, report, started, batch, collapsed, fetch >>

\* a run whose statistics feed reports the order as bought out
NextSupply ==
    \/ \E outcome \in SupplyOutcomes : \E supply \in {JStr(<< "S" >>), JNull} :
          \E t \in FeedTimes : SupplyRun(outcome, supply, t)
    \/ /\ calls < MaxUpserts
       /\ \E t \in FeedTimes : UpsertCall(ExternalOrderSnapshot(WB, WbNumber, BUYOUT, t, AttrsA, NoRid))

SpecSupply == Init /\ [][NextSupply]_vars

\* the fetches are awaited with a timeout and the rest of a run is
\* synchronous code: a run that was entered keeps taking its steps
RunStep(r) ==
    \/ ReadSettings(r) \/ ReadSettingsFails(r)
    \/ \E active \in WbActiveLists : \E statistics \in WbStatisticsLists :
          FetchWb(r, active, statistics)
    \/ FetchWbFails(r) \/ SkipWb(r) \/ Pause(r)
    \/ \E postings \in OzonLists : FetchOzon(r, postings)
    \/ FetchOzonFails(r) \/ SkipOzon(r)
    \/ StorageFails(r) \/ Reconcile(r)

\* some run that was entered takes its next step
Progress == \E r \in Runs : RunStep(r)

LiveSpec == Spec /\ WF_vars(Progress)

\* ------------------------------------------------------------------------
\* Properties
\* ------------------------------------------------------------------------
\* the statuses the specification calls terminal
TerminalStatuses ==
    {BUYOUT, REJECTION, DEFECT, SELLER_PICKED_UP, RETURN_ARRIVED_TO_SELLER_PICKUP}

\* the last call of _upsert_snapshot matched an existing WB order
LastOnExistingWb == last.made /\ ~last.created /\ last.snapshot.marketplace = WB

\* C1: rollback protection. When the current status of an existing WB order
\* has funnel rank k and the snapshot has a non-terminal status of rank < k,
\* the upsert leaves current_status and current_status_at as they were and
\* appends no event, whatever the timestamp of the snapshot.
C1_RollbackProtection ==
    ( /\ LastOnExistingWb
      /\ InFunnel(last.before[1].current_status)
      /\ InFunnel(last.snapshot.status)
      /\ last.snapshot.status \notin TerminalStatuses
      /\ WB_FORWARD_FUNNEL_INDEX(last.snapshot.status)
            < WB_FORWARD_FUNNEL_INDEX(last.before[1].current_status) )
    => /\ last.after.current_status = last.before[1].current_status
       /\ last.after.current_status_at = last.before[1].current_status_at
       /\ last.after.events = last.before[1].events
       /\ ~last.event_created

\* a later-stamped assembly snapshot met an order already transferred to delivery
C1_Witness ==
    /\ LastOnExistingWb
    /\ last.before[1].current_status = TRANSFERRED_TO_DELIVERY
    /\ last.snapshot.status = ASSEMBLY
    /\ last.snapshot.status_at > last.before[1].current_status_at
    /\ last.after.current_status = TRANSFERRED_TO_DELIVERY

\* C2: a terminal incoming status that differs from the current status of an
\* existing WB order always becomes its current status, whatever the funnel
\* rank of either status.
C2_TerminalAlwaysApplies ==
    ( /\ LastOnExistingWb
      /\ last.snapshot.status \in TerminalStatuses
      /\ last.snapshot.status # last.before[1].current_status )
    => last.after.current_status = last.snapshot.status

\* buyout arrived for an order whose current status, rejection, has no rank
C2_Witness ==
    /\ LastOnExistingWb
    /\ last.before[1].current_status = REJECTION
    /\ last.snapshot.status = BUYOUT
    /\ last.after.current_status = BUYOUT

\* C3: idempotence. A call of upsert with the snapshot of the call before it
\* changes no order and no event, creates nothing and returns
\* event_created = false.
C3_Idempotent ==
    (last.made /\ last.repeat) =>
        (~last.changed /\ ~last.created /\ ~last.event_created)

\* the snapshot was repeated after it had changed the status of an order
C3_Witness ==
    /\ last.made /\ last.repeat
    /\ Len(last.after.events) = 2
    /\ last.after.current_status = last.snapshot.status

\* a run is between the acquisition of the lock and its release
InRun(r) == run[r].pc # "idle"

\* C4: mutual exclusion. At most one invocation of the sync run is between
\* lock acquisition and lock release, and it holds the lock.
C4_MutualExclusion ==
    /\ Cardinality({r \in Runs : InRun(r)}) <= 1
    /\ \A r \in Runs : InRun(r) => locked

\* one trigger was refused while the other run was pausing after its WB fetch
C4_Witness ==
    \E r \in Runs :
        /\ run[r].pc = "pause"
        /\ report.kind = "report" /\ report.message = "already running"
        /\ report.to # r

\* C5: concurrency refusal. An invocation that finds the lock held returns at
\* once the report with all counts 0 and the message "already running": it
\* does not enter the run (no wait, no credentials read, no adapter call) and
\* writes nothing.
C5_Refusal ==
    [][ (started' # started /\ locked) =>
          /\ report'.kind = "report"
          /\ report'.message = "already running"
          /\ report'.message # "completed"
          /\ report'.wb_received = 0 /\ report'.ozon_received = 0
          /\ report'.processed_orders = 0 /\ report'.created_orders = 0
          /\ report'.updated_orders = 0 /\ report'.created_events = 0
          /\ run' = run
          /\ db' = db /\ settings' = settings /\ locked' = locked ]_vars

\* a trigger was refused while the other run was waiting for the Ozon fetch
C5_Witness ==
    \E r \in Runs :
        /\ run[r].pc = "fetch_ozon"
        /\ locked
        /\ report.kind = "report" /\ report.message = "already running"
        /\ report.to # r /\ run[report.to].pc = "idle"

\* C6: every run that acquired the lock ends with the lock free, on normal
\* completion and on an internal error; and an invocation that finds the lock
\* free is not refused.
C6_LockReleased ==
    /\ locked ~> (~locked /\ \A r \in Runs : ~InRun(r))
    /\ [][ \A r \in Runs : (InRun(r) /\ run'[r].pc = "idle") => ~locked' ]_vars
    /\ [][ (started' # started /\ ~locked) => \E r \in Runs : run'[r].pc = "settings" ]_vars

\* a run ended with an exception and the lock is free
C6_Witness == report.kind = "raised" /\ ~locked /\ \A r \in Runs : ~InRun(r)

\* every snapshot of the list has its order among the rows
AllStored(snapshots, rows) ==
    \A i \in DOMAIN snapshots : FindOrder(rows, snapshots[i]) # 0

\* C7: failure isolation. A failing adapter does not end the run; the run
\* reports 0 received for the failing marketplace, and the snapshots of the
\* other marketplace are counted, collapsed and stored.
C7_FailureIsolation ==
    [][ \A r \in Runs :
          /\ (run[r].pc \in {"fetch_wb", "pause", "fetch_ozon"}) => run'[r].pc # "idle"
          /\ (run[r].pc = "reconcile" /\ run'[r].pc = "idle" /\ report'.kind = "report") =>
                /\ run[r].wb_raised =>
                      /\ report'.wb_received = 0
                      /\ report'.ozon_received = Len(run[r].ozon_snapshots)
                      /\ report'.processed_orders
                            = Cardinality({Key(run[r].ozon_snapshots[i]) :
                                              i \in DOMAIN run[r].ozon_snapshots})
                      /\ AllStored(run[r].ozon_snapshots, db')
                /\ run[r].ozon_raised =>
                      /\ report'.ozon_received = 0
                      /\ report'.wb_received = Len(run[r].wb_snapshots)
                      /\ report'.processed_orders
                            = Cardinality({Key(run[r].wb_snapshots[i]) :
                                              i \in DOMAIN run[r].wb_snapshots})
                      /\ AllStored(run[r].wb_snapshots, db') ]_vars

\* a run whose WB fetch raised created the order of the Ozon snapshot
C7_Witness ==
    /\ report.kind = "report" /\ report.message = "completed"
    /\ report.wb_raised /\ ~report.ozon_raised
    /\ report.wb_received = 0 /\ report.ozon_received = 1
    /\ report.created_orders = 1
    /\ \E i \in DOMAIN db : db[i].marketplace = OZON

\* C8: a sync run always returns a report to its caller and never raises.
C8_NeverRaises == report.kind # "raised"

\* C9: current_status_at of every order is greater than or equal to the
\* timestamp of every event of its history.
C9_StatusAtNotBeforeEvents ==
    \A i \in DOMAIN db : \A j \in DOMAIN db[i].events :
        db[i].current_status_at >= db[i].events[j].event_at

\* C10: the current status of every order is the status of its latest event,
\* the one with the greatest event timestamp.
C10_LatestEventIsCurrent ==
    \A i \in DOMAIN db : \E j \in DOMAIN db[i].events :
        /\ \A k \in DOMAIN db[i].events : db[i].events[k].event_at <= db[i].events[j].event_at
        /\ db[i].events[j].status = db[i].current_status

\* C11: duplicate-event suppression. In every persisted state no order has
\* two events of the same status whose timestamps are less than one second
\* apart (the window of _is_duplicate_event; events exactly one second apart
\* are outside it).
C11_NoDuplicateEvents ==
    \A i \in DOMAIN db : \A j, k \in DOMAIN db[i].events :
        ( /\ j # k
          /\ db[i].events[j].status = db[i].events[k].status )
        => \/ db[i].events[j].event_at - db[i].events[k].event_at >= OneSecond
           \/ db[i].events[k].event_at - db[i].events[j].event_at >= OneSecond

\* an accepted update came back to a status that has an event less than one
\* second away: the status changed and no event was appended
C11_Witness ==
    /\ last.made /\ ~last.created
    /\ last.after.current_status = last.snapshot.status
    /\ last.after.current_status # last.before[1].current_status
    /\ ~last.event_created
    /\ \E j \in DOMAIN last.after.events :
          /\ last.after.events[j].status = last.snapshot.status
          /\ last.after.events[j].event_at # last.snapshot.status_at

\* C12: order identity. After any sequence of sync runs no two persisted
\* orders have the same (marketplace, external_order_id).
C12_UniqueIdentity ==
    \A i, j \in DOMAIN db :
        ( /\ db[i].marketplace = db[j].marketplace
          /\ db[i].external_order_id = db[j].external_order_id )
        => i = j

\* a second run completed on a batch of two snapshots with one key, and its
\* one upsert met the order a run before it had created
C12_Witness ==
    /\ started = MaxStarts
    /\ report.kind = "report" /\ report.message = "completed"
    /\ report.wb_received = 2 /\ report.processed_orders = 1
    /\ report.created_orders = 0 /\ report.updated_orders = 1
    /\ Len(db) >= 1

\* two snapshots have the same (marketplace, external order number)
SameKey(a, b) ==
    a.marketplace = b.marketplace /\ a.assembly_task_number = b.assembly_task_number

\* C13: collapsing. The result of collapse holds exactly one snapshot for
\* every key of the input and nothing else; the snapshot of a key is one of
\* the input with the maximum status timestamp of the key; an empty input
\* gives an empty result; the input list is left as it was.
C13_CollapseDeterminism ==
    collapsed.done =>
        /\ \A i \in DOMAIN collapsed.items : \E j \in DOMAIN collapsed.result :
              SameKey(collapsed.items[i], collapsed.result[j])
        /\ \A j \in DOMAIN collapsed.result : \E i \in DOMAIN collapsed.items :
              collapsed.items[i] = collapsed.result[j]
        /\ \A j, k \in DOMAIN collapsed.result :
              SameKey(collapsed.result[j], collapsed.result[k]) => j = k
        /\ \A j \in DOMAIN collapsed.result : \A i \in DOMAIN collapsed.items :
              SameKey(collapsed.items[i], collapsed.result[j])
                 => collapsed.items[i].status_at <= collapsed.result[j].status_at
        /\ (collapsed.items = << >> => collapsed.result = << >>)
        /\ batch = collapsed.items

\* three snapshots of two keys were collapsed to two, and the later-stamped
\* snapshot of the shared key came first in the input
C13_Witness ==
    /\ collapsed.done
    /\ Len(collapsed.items) = 3 /\ Len(collapsed.result) = 2
    /\ \E i, j \in DOMAIN collapsed.items :
          /\ i < j
          /\ SameKey(collapsed.items[i], collapsed.items[j])
          /\ collapsed.items[i].status_at > collapsed.items[j].status_at

\* C14: collapse tie-break. When several snapshots of a key share the maximum
\* status timestamp of the key, the result holds the first of them in input
\* order.
C14_TieKeepsFirst ==
    collapsed.done =>
        \A j \in DOMAIN collapsed.result : \A i \in DOMAIN collapsed.items :
            ( /\ SameKey(collapsed.items[i], collapsed.result[j])
              /\ collapsed.items[i].status_at = collapsed.result[j].status_at
              /\ \A h \in 1..(i - 1) :
                    ~( /\ SameKey(collapsed.items[h], collapsed.result[j])
                       /\ collapsed.items[h].status_at = collapsed.result[j].status_at ) )
            => collapsed.result[j] = collapsed.items[i]

\* the rows are one WB order with this status, status timestamp and history
OnlyWbOrder(rows, status, status_at, events) ==
    /\ Len(rows) = 1
    /\ rows[1].marketplace = WB
    /\ rows[1].current_status = status
    /\ rows[1].current_status_at = status_at
    /\ rows[1].events = events

\* C15: three successive runs on a WB order with no record. {assembly, T0}
\* creates the order with status assembly and the one event at T0;
\* {transferred_to_delivery, T1 > T0} makes transferred_to_delivery current
\* and appends a second event; the stale {assembly, T2 > T1} leaves the
\* status, current_status_at = T1 and the two events.
C15_ThreeRuns ==
    [][ \A T0, T1, T2 \in Times :
          LET first == << OrderEvent(ASSEMBLY, T0) >>
              both == << OrderEvent(ASSEMBLY, T0), OrderEvent(TRANSFERRED_TO_DELIVERY, T1) >>
              delivered(status, status_at) ==
                  /\ calls' = calls + 1
                  /\ last'.snapshot.marketplace = WB
                  /\ last'.snapshot.status = status
                  /\ last'.snapshot.status_at = status_at
          IN  /\ (db = << >> /\ delivered(ASSEMBLY, T0))
                    => OnlyWbOrder(db', ASSEMBLY, T0, first)
              /\ (T0 < T1 /\ OnlyWbOrder(db, ASSEMBLY, T0, first)
                          /\ delivered(TRANSFERRED_TO_DELIVERY, T1))
                    => OnlyWbOrder(db', TRANSFERRED_TO_DELIVERY, T1, both)
              /\ (T0 < T1 /\ T1 < T2
                          /\ OnlyWbOrder(db, TRANSFERRED_TO_DELIVERY, T1, both)
                          /\ delivered(ASSEMBLY, T2))
                    => OnlyWbOrder(db', TRANSFERRED_TO_DELIVERY, T1, both) ]_vars

\* the third run of the scenario has happened
C15_Witness ==
    \E T0, T1, T2 \in Times :
        /\ T0 < T1 /\ T1 < T2
        /\ calls = 3
        /\ last.made /\ last.snapshot.marketplace = WB
        /\ last.snapshot.status = ASSEMBLY /\ last.snapshot.status_at = T2
        /\ last.before = << last.after >>
        /\ OnlyWbOrder(db, TRANSFERRED_TO_DELIVERY, T1,
                       << OrderEvent(ASSEMBLY, T0), OrderEvent(TRANSFERRED_TO_DELIVERY, T1) >>)

\* the number of events of the order a snapshot is matched with, 0 without one
EventsOf(rows, snapshot) ==
    IF FindOrder(rows, snapshot) = 0 THEN 0
    ELSE Len(rows[FindOrder(rows, snapshot)].events)

\* C16: a batch with two snapshots of one key. When the batch of a run
\* holds two snapshots of a key, and no third, with different statuses and
\* timestamps T3 < T4, in either order, the key counts once in processed_orders, its
\* order gets at most one event, and an order that had no record ends with
\* the status, the timestamp and the single event of the T4 snapshot.
C16_BatchKeepsLatest ==
    [][ \A r \in Runs :
          (run[r].pc = "reconcile" /\ run'[r].pc = "idle" /\ report'.kind = "report") =>
             LET items == run[r].wb_snapshots \o run[r].ozon_snapshots
             IN  \A i, j \in DOMAIN items :
                   ( /\ SameKey(items[i], items[j])
                     /\ items[i].status # items[j].status
                     /\ items[i].status_at < items[j].status_at
                     /\ \A k \in DOMAIN items : SameKey(items[k], items[j]) => k \in {i, j} )
                   => /\ report'.processed_orders
                            = Cardinality({ << items[k].marketplace, items[k].assembly_task_number >> :
                                              k \in DOMAIN items })
                      /\ FindOrder(db', items[j]) # 0
                      /\ EventsOf(db', items[j]) <= EventsOf(db, items[j]) + 1
                      /\ FindOrder(db, items[j]) = 0 =>
                            /\ db'[FindOrder(db', items[j])].current_status = items[j].status
                            /\ db'[FindOrder(db', items[j])].current_status_at = items[j].status_at
                            /\ db'[FindOrder(db', items[j])].events
                                  = << OrderEvent(items[j].status, items[j].status_at) >> ]_vars

\* the first run got the later-stamped active snapshot before the earlier
\* statistics snapshot of the same order, and created the order from the
\* active one
C16_Witness ==
    /\ started = 1
    /\ report.kind = "report" /\ report.message = "completed"
    /\ report.wb_received = 2 /\ report.ozon_received = 0
    /\ report.processed_orders = 1 /\ report.created_orders = 1
    /\ report.created_events = 1
    /\ Len(db) = 1
    /\ db[1].current_status \in {ASSEMBLY, TRANSFERRED_TO_DELIVERY}
    /\ db[1].current_status_at > 0
    /\ Len(db[1].events) = 1

\* C17: first observation. A call of upsert whose snapshot matches no
\* persisted order adds exactly one order, with the status and timestamp of
\* the snapshot and a history of the one event with that status and
\* timestamp, and returns (created, event_created) = (true, true); a call
\* whose snapshot matches an order returns created = false and adds no order.
C17_FirstObservation ==
    [][ calls' # calls =>
          IF FindOrder(db, last'.snapshot) = 0
          THEN /\ Len(db') = Len(db) + 1
               /\ SubSeq(db', 1, Len(db)) = db
               /\ db'[Len(db')].marketplace = last'.snapshot.marketplace
               /\ db'[Len(db')].external_order_id = last'.snapshot.assembly_task_number
               /\ db'[Len(db')].current_status = last'.snapshot.status
               /\ db'[Len(db')].current_status_at = last'.snapshot.status_at
               /\ db'[Len(db')].events
                     = << OrderEvent(last'.snapshot.status, last'.snapshot.status_at) >>
               /\ last'.created /\ last'.event_created
          ELSE /\ Len(db') = Len(db)
               /\ ~last'.created ]_vars

\* an order was created beside the order of the other marketplace, then
\* matched by the next call
C17_Witness ==
    /\ Len(db) = 2
    /\ last.made /\ ~last.created
    /\ last.id = 2
    /\ Len(db[2].events) = 1

\* C18: same status, newer timestamp. For an existing Ozon order, a snapshot
\* with the current status and a timestamp more than one second after
\* current_status_at is an accepted update: the attributes are refreshed,
\* current_status_at becomes the timestamp of the snapshot, and an event is
\* appended unless the order has an event of that status within one second.
C18_SameStatusNewerTimestamp ==
    ( /\ last.made /\ ~last.created
      /\ last.snapshot.marketplace = OZON
      /\ last.snapshot.status = last.before[1].current_status
      /\ last.snapshot.status_at - last.before[1].current_status_at > OneSecond )
    => /\ last.after.current_status_at = last.snapshot.status_at
       /\ last.after.product_name = last.snapshot.product_name
       /\ last.after.quantity = last.snapshot.quantity
       /\ last.event_created
             <=> ~ \E j \in DOMAIN last.before[1].events :
                      /\ last.before[1].events[j].status = last.snapshot.status
                      /\ last.before[1].events[j].event_at - last.snapshot.status_at < OneSecond
                      /\ last.snapshot.status_at - last.before[1].events[j].event_at < OneSecond

\* the last call met an existing order and the update was refused by
\* rollback protection, or the incoming status is the current one
NoOpCase ==
    /\ last.made /\ ~last.created
    /\ \/ last.snapshot.status = last.before[1].current_status
       \/ /\ last.snapshot.marketplace = WB
          /\ InFunnel(last.before[1].current_status)
          /\ InFunnel(last.snapshot.status)
          /\ WB_FORWARD_FUNNEL_INDEX(last.snapshot.status)
                < WB_FORWARD_FUNNEL_INDEX(last.before[1].current_status)

\* C19 as stated: in the no-op branch nothing of the order changes.
C19_NoChangeAtAll == NoOpCase => last.after = last.before[1]

\* C19, amended: in the no-op branch the order and its history are unchanged,
\* except that a snapshot carrying a correlation token fills it in when the
\* order has none, and that write touches updated-at.
C19_NoChangeButToken ==
    NoOpCase =>
        IF last.snapshot.wb_rid # NoRid /\ last.before[1].wb_rid = NoRid
        THEN last.after = [last.before[1] EXCEPT !.wb_rid = last.snapshot.wb_rid,
                                                 !.updated_at = @ + 1]
        ELSE last.after = last.before[1]

\* a same-status snapshot with other attributes and a token met an order
\* without one; and the order keeps a token it has
C19_Witness ==
    /\ NoOpCase
    /\ last.before[1].wb_rid = NoRid /\ last.after.wb_rid = WbSrid
    /\ last.snapshot.product_name # last.before[1].product_name
    /\ last.after.product_name = last.before[1].product_name
    /\ ~last.event_created

\* C20: out-of-order input. For an existing order of either marketplace, a
\* snapshot older than current_status_at whose status is an earlier stage of
\* the forward funnel than the current status does not change the current
\* status.
C20_NoRegression ==
    ( /\ last.made /\ ~last.created
      /\ last.snapshot.status_at < last.before[1].current_status_at
      /\ InFunnel(last.before[1].current_status)
      /\ InFunnel(last.snapshot.status)
      /\ last.snapshot.status # BUYOUT
      /\ WB_FORWARD_FUNNEL_INDEX(last.snapshot.status)
            < WB_FORWARD_FUNNEL_INDEX(last.before[1].current_status) )
    => last.after.current_status = last.before[1].current_status

\* the number of events of all the orders
RECURSIVE EventCount(_)
EventCount(rows) ==
    IF rows = << >> THEN 0
    ELSE Len(Head(rows).events) + EventCount(Tail(rows))

C22_RetryOnceThenFail ==
    fetch.streak >= 2 =>
        /\ fetch.streak = 2
        /\ IF fetch.call = "postings_page" THEN fetch.ozon_raised ELSE fetch.wb_raised

\* C23: whatever the API answers, the loop over the pages of the WB orders
\* issues at most MAX_WB_PAGES requests and the loop over the pages of the
\* Ozon postings at most MAX_OZON_PAGES; the loop ends at once when a page is
\* empty, signals no further page or (WB) repeats the cursor; every pass that
\* stays in the loop has issued one more request, so the loop terminates.
C23_PaginationBound ==
    [][ /\ fetch'.pc \in {"wb_pages", "wb_supplies"} => fetch'.requests <= MAX_WB_PAGES
        /\ fetch'.pc \in {"ozon_pages", "done"} => fetch'.requests <= MAX_OZON_PAGES
        /\ fetch.pc \in {"wb_pages", "ozon_pages"} /\ fetch'.pc = fetch.pc =>
              /\ fetch'.requests = fetch.requests + 1
              /\ fetch'.page \in {"429", "more"}
        /\ fetch.pc = "wb_pages" /\ fetch.requests = MAX_WB_PAGES - 1 => fetch'.pc # "wb_pages"
        /\ fetch.pc = "ozon_pages" /\ fetch.requests = MAX_OZON_PAGES - 1 => fetch'.pc = "done"
      ]_vars

\* both loops ran to their ceiling: 20 pages of orders after the new order,
\* the statistics snapshot, and 30 pages of postings each announcing a next
C23_Witness ==
    /\ fetch.pc = "done" /\ fetch.requests = MAX_OZON_PAGES /\ fetch.page = "more"
    /\ fetch.ozon_snapshots = MAX_OZON_PAGES
    /\ fetch.wb_snapshots = MAX_WB_PAGES + 2

C25_MergeRekeys ==
    applied.fn = "merge" /\ applied.done =>
        LET active == applied.active
            statistics == applied.statistics
            merged == applied.result
        IN  /\ Len(merged) = Len(active) + Len(statistics)
            /\ \A i \in DOMAIN active : merged[i] = active[i]
            /\ \A i \in DOMAIN statistics :
                  LET stat == statistics[i]
                      out == merged[Len(active) + i]
                      matches == { j \in DOMAIN active :
                                     stat.wb_rid # NoRid /\ active[j].wb_rid = stat.wb_rid }
                  IN  /\ [out EXCEPT !.assembly_task_number = stat.assembly_task_number] = stat
                      /\ matches # {} =>
                            \E j \in matches :
                               out.assembly_task_number = active[j].assembly_task_number
                      /\ matches = {} => out.assembly_task_number = stat.assembly_task_number

\* one statistics snapshot took the number of the active snapshot with its
\* rid, the other one found no active snapshot and kept its srid
C25_Witness ==
    /\ applied.fn = "merge" /\ applied.done
    /\ Len(applied.active) = 2 /\ Len(applied.statistics) = 2
    /\ applied.active[2].wb_rid = WbSrid
    /\ applied.statistics[1].wb_rid = WbSrid
    /\ applied.result[3].assembly_task_number = applied.active[2].assembly_task_number
    /\ applied.result[3].assembly_task_number # applied.statistics[1].assembly_task_number
    /\ applied.statistics[2].wb_rid = << "s", "2" >>
    /\ applied.active[1].wb_rid = NoRid
    /\ applied.result[4] = applied.statistics[2]

\* the events of an order before a step are the first events of the order
\* after it
IsPrefix(s, t) == Len(s) <= Len(t) /\ SubSeq(t, 1, Len(s)) = s

\* C26: history is append-only. An upsert removes no order, removes and
\* changes no event of any order, and gives an order at most one more event,
\* added after the ones it had.
C26_AppendOnly ==
    [][ \A i \in DOMAIN db :
          /\ i \in DOMAIN db'
          /\ IsPrefix(db[i].events, db'[i].events)
          /\ Len(db'[i].events) <= Len(db[i].events) + 1 ]_vars

\* an upsert appended the second event of an order, after its first one,
\* while a second order with its own event is stored
C26_Witness ==
    /\ last.made /\ last.event_created /\ ~last.created
    /\ Len(last.after.events) = 2 /\ Len(last.before[1].events) = 1
    /\ last.after.events[1] = last.before[1].events[1]
    /\ Len(db) = 2

\* C29: for an existing order the call returns event_created = true exactly
\* when it appended one event to the order, and when it returns false the
\* events of the order are as they were, also when the status changed and
\* the event was suppressed as a duplicate; a created order has its one
\* event and event_created = true. The events added to the storage are
\* therefore as many as the calls that returned event_created = true.
C29_EventCreatedExact ==
    [][ LET id == last'.id
        IN  /\ last'.made
            /\ IF last'.created
               THEN /\ id \notin DOMAIN db
                    /\ last'.event_created /\ Len(db'[id].events) = 1
               ELSE /\ last'.event_created <=>
                          Len(db'[id].events) = Len(db[id].events) + 1
                    /\ ~last'.event_created => db'[id].events = db[id].events
            /\ EventCount(db') = EventCount(db) + (IF last'.event_created THEN 1 ELSE 0)
      ]_vars

\* the status of an existing order changed and the event was suppressed as a
\* duplicate: event_created is false and no event was added
C29_Witness ==
    /\ last.made /\ ~last.created /\ ~last.event_created
    /\ last.after.current_status # last.before[1].current_status
    /\ last.after.events = last.before[1].events
    /\ is_duplicate_event(last.before[1], last.after.current_status, last.snapshot.status_at)

\* C30: one call of upsert adds or changes at most one order and removes
\* none; every other order, its events included, is as it was.
C30_OneOrderPerUpsert ==
    [][ /\ DOMAIN db \subseteq DOMAIN db'
        /\ Cardinality({ i \in DOMAIN db' : i \notin DOMAIN db \/ db'[i] # db[i] }) <= 1
        /\ \A i \in DOMAIN db : i # last'.id => db'[i] = db[i]
      ]_vars

\* an accepted update of the first order while the second order, with its
\* event, is stored
C30_Witness ==
    /\ last.made /\ ~last.created /\ last.changed /\ last.event_created
    /\ last.id = 1 /\ Len(db) = 2 /\ Len(db[2].events) = 1

\* C28: the Ozon status mapping is total and ordered. The raw status,
\* trimmed and in lower case, that is a key of the table maps to the entry
\* of the table, whatever the heuristics would give ('delivered' and
\* ' DELIVERED  ' map to arrived_at_buyer_pickup); any other text maps by
\* the first rule that applies: contains 'cancel' or 'not_accepted' ->
\* rejection; contains 'return' and 'to_seller' ->
\* return_arrived_to_seller_pickup; contains 'return' -> return_started;
\* contains 'deliver' or 'transit' -> in_transit_to_buyer; otherwise new.
\* Every input, null included, has a status.
C28_OzonMappingOrdered ==
    applied.fn = "map_ozon_status" /\ applied.done =>
        LET text == normalize_status_text(applied.raw_status)
            result == applied.result
            has(word) == Contains(text, word)
        IN  /\ result \in OrderStatus
            /\ \A e \in OZON_STATUS_MAP : text = e[1] => result = e[2]
            /\ (\A e \in OZON_STATUS_MAP : text # e[1]) =>
                  \/ /\ has(Text.cancel) \/ has(Text.not_accepted)
                     /\ result = REJECTION
                  \/ /\ ~(has(Text.cancel) \/ has(Text.not_accepted))
                     /\ has(Text.return) /\ has(Text.to_seller)
                     /\ result = RETURN_ARRIVED_TO_SELLER_PICKUP
                  \/ /\ ~(has(Text.cancel) \/ has(Text.not_accepted))
                     /\ has(Text.return) /\ ~has(Text.to_seller)
                     /\ result = RETURN_STARTED
                  \/ /\ ~(has(Text.cancel) \/ has(Text.not_accepted)) /\ ~has(Text.return)
                     /\ has(Text.deliver) \/ has(Text.transit)
                     /\ result = IN_TRANSIT_TO_BUYER
                  \/ /\ ~(has(Text.cancel) \/ has(Text.not_accepted)) /\ ~has(Text.return)
                     /\ ~(has(Text.deliver) \/ has(Text.transit))
                     /\ result = NEW_STATUS
            /\ applied.raw_status \in
                  { JStr(Text.delivered),
                    JStr(<< " " >> \o upper(Text.delivered) \o << " ", " " >>) }
                  => result = ARRIVED_AT_BUYER_PICKUP
            /\ applied.raw_status \in { JNull, JInt(5), JStr(<< "x" >>) } => result = NEW_STATUS

\* ' DELIVERED  ' was mapped by the table although it contains 'deliver'
C28_Witness ==
    /\ applied.fn = "map_ozon_status" /\ applied.done
    /\ applied.raw_status = JStr(<< " " >> \o upper(Text.delivered) \o << " ", " " >>)
    /\ Contains(normalize_status_text(applied.raw_status), Text.deliver)
    /\ applied.result = ARRIVED_AT_BUYER_PICKUP

\* some field that can hold the number of the record holds a text that is
\* not blank
HasUsableNumber(item) ==
    IF "id" \in DOMAIN item
    THEN \E v \in { item.id, item.rid, item.srid } : StrippedText(v) # << >>
    ELSE \E v \in { item.posting_number, item.order_number } : StrippedText(v) # << >>

\* the quantity a value stands for: a positive number, as integer or as
\* text, is itself, anything else is invalid and counts as 1
QuantityOr1(value) ==
    IF value.kind = "int" /\ value.value > 0 THEN value.value
    ELSE IF value.kind = "str" /\ IsDigits(value.text) /\ ParseDigits(value.text) > 0
         THEN ParseDigits(value.text)
    ELSE 1

RECURSIVE SumQuantityOr1(_)
SumQuantityOr1(products) ==
    IF products = << >> THEN 0
    ELSE QuantityOr1(Head(products).quantity) + SumQuantityOr1(Tail(products))

\* the quantity of the snapshot of a record: of a WB order its quantity, of
\* a posting the sum over its products, 1 without products
ExpectedQuantity(item) ==
    IF "id" \in DOMAIN item THEN QuantityOr1(item.quantity)
    ELSE IF item.products.kind # "list" \/ item.products.items = << >> THEN 1
    ELSE SumQuantityOr1(item.products.items)

\* the records with a usable number, in their order
RECURSIVE Usable(_)
Usable(items) ==
    IF items = << >> THEN << >>
    ELSE (IF HasUsableNumber(Head(items)) THEN << Head(items) >> ELSE << >>)
         \o Usable(Tail(items))

\* C27: defects of a record never abort a page. The normalization of the
\* records of a page does not raise; a record without a usable number gives
\* no snapshot and every other record gives one, in the order of the page;
\* an invalid or missing quantity counts as 1 and every snapshot has a
\* quantity of at least 1.
C27_DefectsNeverAbort ==
    applied.fn \in {"normalize_wb_records", "normalize_ozon_records"} /\ applied.done =>
        LET kept == Usable(applied.items)
            snapshots == applied.result.snapshots
        IN  /\ ~applied.result.raised
            /\ Len(snapshots) = Len(kept)
            /\ \A i \in DOMAIN snapshots :
                  /\ snapshots[i].quantity >= 1
                  /\ snapshots[i].quantity = ExpectedQuantity(kept[i])

\* C31: the credentials a run uses are the settings row as it was when the run
\* read it, once, before the first adapter call: they stay what they were
\* while the run fetches, whatever is saved meanwhile; an adapter whose
\* credentials were empty at that read is passed over (no snapshots, no
\* failure logged) and the report gives 0 received for it.
C31_CredentialsReadOnce ==
    [][\A r \in Runs :
         /\ run[r].pc = "settings" =>
               /\ run[r].wb_snapshots = << >> /\ run[r].ozon_snapshots = << >>
               /\ run'[r].pc \notin {"settings", "idle"} => run'[r].cfg = settings
         /\ (run[r].pc \notin {"idle", "settings"} /\ run'[r].pc # "idle")
               => run'[r].cfg = run[r].cfg
         /\ (run[r].pc = "fetch_wb" /\ ~run[r].cfg.wb_token /\ run'[r].pc # "fetch_wb")
               => /\ run'[r].pc = "fetch_ozon"
                  /\ run'[r].wb_snapshots = << >> /\ ~run'[r].wb_raised
         /\ (run[r].pc = "fetch_ozon" /\ ~run[r].cfg.ozon_keys /\ run'[r].pc # "fetch_ozon")
               => /\ run'[r].pc = "reconcile"
                  /\ run'[r].ozon_snapshots = << >> /\ ~run'[r].ozon_raised
         /\ (run[r].pc = "reconcile" /\ run'[r].pc = "idle" /\ report'.kind = "report")
               => /\ ~run[r].cfg.wb_token => report'.wb_received = 0
                  /\ ~run[r].cfg.ozon_keys => report'.ozon_received = 0
      ]_vars

\* a run that read empty credentials has passed both adapters over although
\* both credentials were saved after its read
C31_Witness ==
    \E r \in Runs :
        /\ run[r].pc = "reconcile"
        /\ ~run[r].cfg.wb_token /\ ~run[r].cfg.ozon_keys
        /\ settings.wb_token /\ settings.ozon_keys
        /\ run[r].wb_snapshots = << >> /\ run[r].ozon_snapshots = << >>

\* C32: an upsert looks the order up by (marketplace, number) first. Only
\* when that finds none, the snapshot carries a correlation token and its
\* number contains a letter or a '.', it looks up by (marketplace, token);
\* the order found that way is updated, none is created, and its
\* external_order_id stays. In every other case without a match by number,
\* a purely numeric number included, a new order is created.
C32_FallbackLookup ==
    [][calls' # calls =>
         LET s == last'.snapshot
             number == s.assembly_task_number
             by_number == { i \in DOMAIN db : /\ db[i].marketplace = s.marketplace
                                               /\ db[i].external_order_id = number }
             by_token == { i \in DOMAIN db : /\ db[i].marketplace = s.marketplace
                                              /\ db[i].wb_rid = s.wb_rid }
             falls_back ==
                 /\ by_number = {}
                 /\ s.wb_rid # NoRid
                 /\ \E i \in DOMAIN number : number[i] \in {"a", "b", "s", "."}
         IN  /\ by_number # {} => (~last'.created /\ last'.id \in by_number)
             /\ (falls_back /\ by_token # {}) =>
                   /\ ~last'.created /\ last'.id \in by_token
                   /\ Len(db') = Len(db)
                   /\ db'[last'.id].external_order_id = db[last'.id].external_order_id
             /\ (by_number = {} /\ ~(falls_back /\ by_token # {})) =>
                   /\ last'.created /\ Len(db') = Len(db) + 1
                   /\ db'[Len(db')].external_order_id = number
      ]_vars

\* a snapshot numbered by its srid was matched, by its token, with the order
\* stored under the numeric id, and the order kept that id
C32_Witness ==
    /\ last.made /\ ~last.created
    /\ last.snapshot.assembly_task_number = WbSrid
    /\ last.snapshot.wb_rid = WbSrid
    /\ last.before[1].external_order_id = WbNumber
    /\ last.after.external_order_id = WbNumber
    /\ last.after.current_status = REJECTION
    /\ last.before[1].current_status = ASSEMBLY

\* C33: when an upsert changes the status of an existing order, the event is
\* left out only if the history already has an event of the new status less
\* than one second away from the snapshot's timestamp; at exactly one second
\* or more the event is appended. Either way current_status and
\* current_status_at become the snapshot's.
C33_DuplicateBoundary ==
    ( /\ last.made /\ ~last.created
      /\ last.after.current_status # last.before[1].current_status )
    => LET old == last.before[1].events
           near == \E i \in DOMAIN old :
                      /\ old[i].status = last.snapshot.status
                      /\ old[i].event_at - last.snapshot.status_at < OneSecond
                      /\ last.snapshot.status_at - old[i].event_at < OneSecond
       IN  /\ near => (last.after.events = old /\ ~last.event_created)
           /\ ~near => /\ last.event_created
                       /\ last.after.events =
                             Append(old, OrderEvent(last.snapshot.status,
                                                    last.snapshot.status_at))
           /\ last.after.current_status = last.snapshot.status
           /\ last.after.current_status_at = last.snapshot.status_at

\* the status came back to one the history has an event of, exactly one
\* second away, and the event was appended
C33_Witness ==
    /\ last.made /\ ~last.created /\ last.event_created
    /\ last.after.current_status # last.before[1].current_status
    /\ \E i \in DOMAIN last.before[1].events :
          /\ last.before[1].events[i].status = last.snapshot.status
          /\ last.snapshot.status_at - last.before[1].events[i].event_at = OneSecond
    /\ \A i \in DOMAIN last.before[1].events :
          last.before[1].events[i].status = last.snapshot.status
             => last.snapshot.status_at - last.before[1].events[i].event_at = OneSecond

\* C34: terminal statuses are absorbing for WB orders. Once the stored status
\* of a WB order is buyout, rejection, defect, seller_picked_up or
\* return_arrived_to_seller_pickup, no step sets it to a status outside
\* that set.
C34_TerminalAbsorbing ==
    [][\A i \in DOMAIN db :
          (db[i].marketplace = WB /\ db[i].current_status \in TerminalStatuses)
             => db'[i].current_status \in TerminalStatuses
      ]_vars

\* C35: one logical WB order is never stored twice: no two stored WB orders
\* have the same correlation token (wb_rid), unless they have none.
C35_OneOrderPerToken ==
    \A i, j \in DOMAIN db :
        ( /\ i # j
          /\ db[i].marketplace = WB /\ db[j].marketplace = WB
          /\ db[i].wb_rid # NoRid )
        => db[i].wb_rid # db[j].wb_rid

\* C36: every stored order has at least one event, and its history has an
\* event of its current status less than one second away from
\* current_status_at.
C36_CurrentStatusHasEvent ==
    \A i \in DOMAIN db :
        /\ db[i].events # << >>
        /\ \E k \in DOMAIN db[i].events :
              /\ db[i].events[k].status = db[i].current_status
              /\ db[i].events[k].event_at - db[i].current_status_at < OneSecond
              /\ db[i].current_status_at - db[i].events[k].event_at < OneSecond

\* the status came back to one whose event was suppressed as a duplicate: the
\* only event of the current status is half a second away from
\* current_status_at
C36_Witness ==
    /\ last.made /\ ~last.created /\ ~last.event_created
    /\ last.after.current_status # last.before[1].current_status
    /\ db[last.id] = last.after
    /\ \A k \in DOMAIN last.after.events :
          last.after.events[k].status = last.after.current_status
             => last.after.events[k].event_at # last.after.current_status_at

\* C37: a supply lookup that raised, was answered with an error status or
\* with an unparsable body counts as "not done": the order of that supply is
\* reported as assembly. When the stored order is already at
\* transferred_to_delivery or a later stage of the funnel, such a snapshot
\* changes neither its status nor its status timestamp.
C37_FailedLookupIsNotDone ==
    [][( /\ applied'.fn = "supply_run" /\ applied'.call = calls' /\ calls' # calls
         /\ applied'.outcome \in {"timeout", "500", "unparsable"}
         /\ applied'.supply = JStr(<< "S" >>) )
       => /\ last'.snapshot.status = ASSEMBLY
          /\ ( /\ ~last'.created
               /\ InFunnel(db[last'.id].current_status)
               /\ WB_FORWARD_FUNNEL_INDEX(db[last'.id].current_status)
                     >= WB_FORWARD_FUNNEL_INDEX(TRANSFERRED_TO_DELIVERY) )
             => /\ db'[last'.id].current_status = db[last'.id].current_status
                /\ db'[last'.id].current_status_at = db[last'.id].current_status_at
                /\ db'[last'.id].events = db[last'.id].events
      ]_vars

\* the lookup timed out in a run after the one that stored the order as
\* transferred to delivery, and the order stayed there
C37_Witness ==
    /\ applied.fn = "supply_run" /\ applied.call = calls
    /\ applied.outcome = "timeout" /\ applied.supply = JStr(<< "S" >>)
    /\ last.made /\ ~last.created
    /\ last.snapshot.status = ASSEMBLY
    /\ last.snapshot.status_at > last.before[1].current_status_at
    /\ last.before[1].current_status = TRANSFERRED_TO_DELIVERY
    /\ last.after.current_status = TRANSFERRED_TO_DELIVERY

\* C38: in the report of every completed run, created_orders + updated_orders
\* = processed_orders, processed_orders <= wb_received + ozon_received, and
\* created_orders <= created_events <= processed_orders.
C38_ReportCountsConsistent ==
    (report.kind = "report" /\ report.message = "completed") =>
        /\ report.created_orders + report.updated_orders = report.processed_orders
        /\ report.processed_orders <= report.wb_received + report.ozon_received
        /\ report.created_orders <= report.created_events
        /\ report.created_events <= report.processed_orders

\* a run received three snapshots, two of them of one order, created an order
\* and matched another
C38_Witness ==
    /\ report.kind = "report" /\ report.message = "completed"
    /\ report.wb_received = 2 /\ report.ozon_received = 1
    /\ report.processed_orders = 2
    /\ report.created_orders = 1 /\ report.updated_orders = 1
    /\ report.created_events >= 1

\* C39: the report's updated_orders is the number of orders that existed
\* before the run and whose stored state the run changed; a snapshot that was
\* a no-op or was rejected by the rollback protection is not counted.
C39_UpdatedCountsChanges ==
    [][\A r \in Runs :
          ( /\ run[r].pc = "reconcile" /\ run'[r].pc = "idle"
            /\ report'.kind = "report" /\ report'.message = "completed" )
          => report'.updated_orders = Cardinality({ i \in DOMAIN db : db'[i] # db[i] })
      ]_vars

\* C39, amended: the report's updated_orders is the number of processed
\* snapshots that were matched with an order that existed before the run,
\* that is every processed snapshot that created no order, whether or not
\* it changed the order.
C39_UpdatedCountsMatches ==
    [][\A r \in Runs :
          ( /\ run[r].pc = "reconcile" /\ run'[r].pc = "idle"
            /\ report'.kind = "report" /\ report'.message = "completed" )
          => /\ report'.updated_orders
                   = report'.processed_orders - (Len(db') - Len(db))
             /\ report'.updated_orders
                   >= Cardinality({ i \in DOMAIN db : db'[i] # db[i] })
      ]_vars

\* the second run received the snapshot the first one had stored: the order
\* is as it was created, and the report counts one updated order
C39_Witness ==
    /\ report.kind = "report" /\ report.message = "completed"
    /\ report.updated_orders = 1 /\ report.created_orders = 0
    /\ report.created_events = 0
    /\ Len(db) = 1
    /\ db[1].updated_at = 0 /\ Len(db[1].events) = 1

====
